---- MODULE Spec2Model ----
(***************************************************************************)
(* Model of the stokast sequencer core: the sequencer state machine        *)
(* (src/src/state.rs), the output gate scheduler (src/src/output.rs) and   *)
(* the quadrature decoder (src/src/encoder.rs).                            *)
(*                                                                         *)
(* Times are counts of the hardware cycle counter (Time<CPU_SPEED>.count). *)
(* Fixed-width integers keep their width: an arithmetic overflow aborts in *)
(* a build with overflow checks ("debug") and wraps in one without         *)
(* ("release"); the variable build holds which one the run is.             *)
(***************************************************************************)
EXTENDS Integers, Sequences, FiniteSets, TLC

VARIABLES
    build,      \* "debug" (overflow checks on) or "release" (wrapping)
    clock,      \* the cycle counter: the `now` of the current pass
    pc,         \* "poll": about to queue operations; "update": about to apply them
    opers,      \* the operations queued for the next State::update call
    state,      \* the State struct (state.rs), plus the field panic
    handled,    \* how many operations the latest State::update call was handed (-1: no call yet)
    gate,       \* one Gate struct (output.rs), plus what its pin was last told
    gate_in,    \* the arguments of the latest Gate::tick call
    outputs,    \* the Outputs struct (output.rs), plus the commands of its latest tick
    enc,        \* one Encoder struct (encoder.rs), plus the results of its latest tick
    knob,       \* how the shaft of that encoder is being moved, and what its ticks returned since
    mem,        \* the memory of the Lock values and every Lock instance made so far (lock.rs)
    lock_op,    \* the latest operation on a Lock
    primask,    \* TRUE while interrupts are disabled (inside cortex_m::interrupt::free)
    clk_flags,  \* the value of the Lock clk_flags: (reset seen, cycle count of the clock edge)
    io_ext_flags, \* the value of the Lock io_ext_flags: (expander 1 fired, expander 2 fired)
    pending,    \* the interrupt status bits of the pins rst, clk, ext1 and ext2
    main,       \* the locals of the main loop and its position in the loop body
    access,     \* the access to clk_flags or io_ext_flags that the latest step made, if any
    hist        \* the clock edges so far, and whether one came before the last was drained

seqVars == <<build, clock, pc, opers, state, handled>>

gateVars == <<gate, gate_in, outputs>>

lockVars == <<mem, lock_op>>

irqVars == <<primask, clk_flags, io_ext_flags, pending, main, access, hist>>

newVars == <<knob, lockVars, irqVars>>

vars == <<build, clock, pc, opers, state, handled, gate, gate_in, outputs, enc, knob, mem, lock_op,
          primask, clk_flags, io_ext_flags, pending, main, access, hist>>

----------------------------------------------------------------------------
(* Fixed-width arithmetic *)

WrapI8(n) == ((n + 128) % 256) - 128

AsU8(n) == n % 256

InI8(n) == n >= -128 /\ n <= 127

Min(a, b) == IF a < b THEN a ELSE b

Max(a, b) == IF a > b THEN a ELSE b

----------------------------------------------------------------------------
(* Program constants *)

TRACK_COUNT == 4

Tracks == 0 .. (TRACK_COUNT - 1)

SEED_BASE == 1000

TrackSyncLen == 3

ModeLen == 12

\* TrackSync discriminants
Sync == 0
Free == 1
Loop == 2

\* InputMode values; tr is 0 for the variants without a track
Mode(tag, tr) == [tag |-> tag, tr |-> tr]
Run == Mode("Run", 0)
SeedMode == Mode("Seed", 0)
Fate == Mode("Fate", 0)
LengthMode == Mode("Length", 0)

\* The `let mut input_mode = None` of State::update
None == Mode("None", 0)

\* Oper values; tr and x are 0 for the variants without them
Oper(op, tr, x) == [op |-> op, tr |-> tr, x |-> x]

----------------------------------------------------------------------------
(* 32-bit unsigned values.  A u32 value v is held as [h, b] with           *)
(* v = 2 * h + b, h in 0 .. 2^31 - 1 and b in 0 .. 1, so that every         *)
(* intermediate result stays a 32-bit signed integer.                       *)

I32_MAX == 2147483647

U32(h, b) == [h |-> h, b |-> b]

ZeroU32 == U32(0, 0)

MaxU32 == U32(I32_MAX, 1)

\* u32::MAX / d as a plain integer, for 2 <= d (the quotient fits 31 bits)
U32MaxDiv(d) == 2 * (I32_MAX \div d) + (IF (I32_MAX % d) >= d - (I32_MAX % d) - 1 THEN 1 ELSE 0)

\* v / d as a plain integer, for a divisor 1 <= d <= 2^31 - 1 with a quotient that fits
DivU32(v, d) == 2 * (v.h \div d) + (IF (v.h % d) >= d - (v.h % d) - v.b THEN 1 ELSE 0)

\* v < u32::MAX / 2
LtHalfU32(v) == v.h < 1073741823 \/ (v.h = 1073741823 /\ v.b = 0)

\* u32::MAX - v
NotU32(v) == U32(I32_MAX - v.h, 1 - v.b)

\* v.wrapping_add(c)
WrappingAddU32(v, c) ==
    LET carry == (v.b + c.b) \div 2
        room  == I32_MAX - c.h - carry
    IN  U32(IF v.h > room THEN v.h - room - 1 ELSE v.h + c.h + carry, (v.b + c.b) % 2)

----------------------------------------------------------------------------
(* Lfo (lfo.rs).  next is -1 for None.  rnd is the seed the table of 64    *)
(* draws was filled from; the table itself is RndTable(rnd, i).            *)

\* alg::rnd::Rnd: the i-th draw of the generator seeded with seed, shifted to 12 bits
RndTable(seed, i) == (seed * 31 + i * 17) % 4096

\* alg::geom::tri: a triangle wave over the 32-bit phase, -32767 .. 32767
tri(offset) ==
    LET q == offset.h \div 536870912
        f == (offset.h % 536870912) \div 16384
    IN  CASE q = 0 -> f
          [] q = 1 -> 32767 - f
          [] q = 2 -> 0 - f
          [] OTHER -> f - 32767

\* alg::geom::sin: a sine wave over the 32-bit phase, -32767 .. 32767
sin(offset) ==
    LET q == offset.h \div 1073741824
        f == (offset.h % 1073741824) \div 32768
        a == (f * (32767 - f)) \div 8192
    IN  IF q = 0 THEN Min(a, 32767) ELSE 0 - Min(a, 32767)

sin_12(offset) == (32768 + sin(offset)) \div 16

saw_12(offset) == (offset.h \div 524288) % 65536

tri_12(offset) == (32768 + tri(offset)) \div 16

sqr_12(offset) == IF LtHalfU32(offset) THEN 4095 ELSE 0

QuarterU32 == U32(536870911, 1)

HalfU32 == U32(1073741823, 1)

\* the table index of Random mode, offset / (u32::MAX / (length - 1)): with length 2
\* the divisor is u32::MAX itself
RndIndex(l) ==
    IF l.length = 2 THEN (IF l.offset = U32(I32_MAX, 1) THEN 1 ELSE 0)
    ELSE DivU32(l.offset, U32MaxDiv(l.length - 1))

\* Mode::output panics: the assert, a zero divisor or an index past the table
ModeOutputPanics(l) ==
    \/ l.length = 0
    \/ l.mode = 0 /\ l.length = 1
    \/ l.mode = 0 /\ l.length > 1 /\ RndIndex(l) >= 64

ModeOutput(l) ==
    CASE l.mode = 0  -> RndTable(l.rnd, RndIndex(l))
      [] l.mode = 1  -> saw_12(l.offset)
      [] l.mode = 2  -> saw_12(NotU32(l.offset))
      [] l.mode = 3  -> sin_12(l.offset)
      [] l.mode = 4  -> sin_12(WrappingAddU32(l.offset, QuarterU32))
      [] l.mode = 5  -> sin_12(WrappingAddU32(l.offset, HalfU32))
      [] l.mode = 6  -> tri_12(l.offset)
      [] l.mode = 7  -> tri_12(WrappingAddU32(l.offset, QuarterU32))
      [] l.mode = 8  -> tri_12(WrappingAddU32(l.offset, HalfU32))
      [] l.mode = 9  -> sqr_12(l.offset)
      [] l.mode = 10 -> sqr_12(WrappingAddU32(l.offset, QuarterU32))
      [] OTHER       -> sqr_12(WrappingAddU32(l.offset, HalfU32))

\* Lfo::update panics
LfoUpdatePanics(l, gate_rise) == (l.mode # 0 \/ gate_rise) /\ ModeOutputPanics(l)

LfoUpdate(l, gate_rise) ==
    IF l.mode = 0
    THEN IF ~gate_rise THEN l ELSE [l EXCEPT !.next = ModeOutput(l)]
    ELSE IF ModeOutput(l) # l.last
         THEN [l EXCEPT !.last = ModeOutput(l), !.next = ModeOutput(l)]
         ELSE l

LfoDefault ==
    [offset |-> ZeroU32, mode |-> 0, gate_high |-> FALSE, rnd |-> 0, length |-> 2,
     last |-> 0, next |-> -1]

set_seed_length(l, rnd_seed, length) ==
    LfoUpdate([l EXCEPT !.length = length, !.rnd = rnd_seed], FALSE)

\* the mode number set_mode hands to Mode::from, before the remainder
SetModeN(l, d, wrap) ==
    LET n == IF wrap THEN WrapI8(l.mode + d) ELSE l.mode + d
    IN  IF n < 0 THEN n + ModeLen ELSE n

\* set_mode panics: the i8 addition overflows (checked build) or Mode::from
\* gets a number whose remainder is not a mode
SetModePanics(l, d, wrap) ==
    \/ ~wrap /\ ~InI8(l.mode + d)
    \/ SetModeN(l, d, wrap) < 0

set_mode(l, d, wrap) ==
    LfoUpdate([l EXCEPT !.mode = SetModeN(l, d, wrap) % ModeLen], FALSE)

\* Lfo::set_offset
set_offset(l, offset) == LfoUpdate([l EXCEPT !.offset = offset], FALSE)

\* Lfo::set_gate_high taking every change of the gate for a rise
set_gate_high_any_edge(l, high) ==
    IF l.gate_high # high
    THEN [LfoUpdate(l, TRUE) EXCEPT !.gate_high = high]
    ELSE l

\* Lfo::set_gate_high
set_gate_high(l, high) ==
    IF l.gate_high # high
    THEN [LfoUpdate(l, ~l.gate_high /\ high) EXCEPT !.gate_high = high]
    ELSE l

\* Lfo::tick: self.next.take()
LfoTake(l) == [lfo |-> [l EXCEPT !.next = -1], out |-> l.next]


----------------------------------------------------------------------------
(* The collaborators of State: pattern generation and tempo prediction     *)

\* alg::gen::Generated::new: the patterns are a function of the parameters
GeneratedNew(params) == [params |-> params]

\* the seed regenerate draws for the LFO of track i off the patterns' generator
LfoSeed(params, i) == (params.seed * 7 + params.pattern_length * 3 + i) % 1024

\* alg::tempo::Tempo: the mean of the last two intervals
TempoNew == [prev |-> 0]

TempoPredict(tempo, interval) == IF tempo.prev = 0 THEN interval ELSE (tempo.prev + interval) \div 2

TempoObserve(tempo, interval) == [tempo EXCEPT !.prev = interval]

TempoReset(tempo) == [tempo EXCEPT !.prev = 0]

----------------------------------------------------------------------------
(* State (state.rs) *)

\* State::playhead
playhead(st) == st.playhead % st.params.pattern_length

\* State::regenerate panics
RegeneratePanics(st) ==
    \E i \in Tracks :
        LfoUpdatePanics([st.lfo[i] EXCEPT !.length = st.params.tracks[i].length], FALSE)

\* State::regenerate leaving the step sizes of the tracks as they were
regenerateKeepPerTick(st) ==
    [st EXCEPT
        !.generated = GeneratedNew(st.params),
        !.lfo = [i \in Tracks |->
                    set_seed_length(st.lfo[i], LfoSeed(st.params, i), st.params.tracks[i].length)]]

\* State::regenerate
regenerate(st) ==
    [st EXCEPT
        !.generated = GeneratedNew(st.params),
        !.lfo = [i \in Tracks |->
                    set_seed_length(st.lfo[i], LfoSeed(st.params, i), st.params.tracks[i].length)],
        !.track_per_tick = [i \in Tracks |-> U32MaxDiv(st.params.tracks[i].length)]]

\* the length update_track_playhead takes for track i
PlayheadLength(st, i) == st.params.tracks[0].length

\* State::update_track_playhead
update_track_playhead(st) ==
    [st EXCEPT !.track_playhead = [i \in Tracks |->
        CASE st.track_sync[i] = Sync ->
                playhead(st) % Min(st.params.pattern_length, PlayheadLength(st, i))
          [] st.track_sync[i] = Free -> st.playhead % PlayheadLength(st, i)
          [] OTHER -> st.tick_count % PlayheadLength(st, i)]]

\* impl From<i8> for TrackSync: the loop that lifts a negative number
RECURSIVE WhileNegative(_, _)
WhileNegative(n, l) == IF n < 0 THEN WhileNegative(n + l, l) ELSE n

\* the loop `while n >= l { n -= l }` of Oper::Offset
RECURSIVE WhileAtLeast(_, _)
WhileAtLeast(n, l) == IF n >= l THEN WhileAtLeast(n - l, l) ELSE n

TrackSyncFrom(x) == WhileNegative(x, TrackSyncLen) % TrackSyncLen

\* a state that has aborted
Panic(st, why) == [st EXCEPT !.panic = why]

\* an i8 addition a + b: aborts in a checked build when it overflows, else wraps
AddOverflows(a, b) == build = "debug" /\ ~InI8(a + b)

AddI8(a, b) == WrapI8(a + b)

\* the accumulator of the loop of State::update
Acc(st, input_mode, regen) == [st |-> st, input_mode |-> input_mode, regenerate |-> regen]


\* the table LENGTHS of tonight_im_in_the_hands_of_fate
LENGTHS == <<3, 5, 6, 7, 9, 10, 11, 12, 13, 14, 15, 17, 18, 19, 20, 24>>

RECURSIVE Pow2(_)
Pow2(n) == IF n = 0 THEN 1 ELSE 2 * Pow2(n - 1)

\* the draws of one Fate randomization: rnd[k] is the k-th rnd.next()
FateLengthIndex(rnd, i) == DivU32(rnd[6 * i + 1], U32MaxDiv(Len(LENGTHS)))

FateLength(rnd, i) ==
    IF LtHalfU32(rnd[6 * i])
    THEN Min(Max(AsU8(Pow2(DivU32(rnd[6 * i + 1], U32MaxDiv(6)) + 1)), 2), 64)
    ELSE LENGTHS[FateLengthIndex(rnd, i) + 1]

FateSteps(rnd, i, len) ==
    IF LtHalfU32(rnd[6 * i + 2]) THEN 0 ELSE AsU8(DivU32(rnd[6 * i + 3], U32MaxDiv(len + 1)))

FateOffset(rnd, i, len) ==
    IF LtHalfU32(rnd[6 * i + 4]) THEN 0 ELSE AsU8(DivU32(rnd[6 * i + 5], U32MaxDiv(len)))

\* the table index of some track is past the end of LENGTHS
FatePanics(rnd) ==
    \E i \in Tracks : ~LtHalfU32(rnd[6 * i]) /\ FateLengthIndex(rnd, i) >= Len(LENGTHS)

\* State::tonight_im_in_the_hands_of_fate
tonight_im_in_the_hands_of_fate(st, rnd) ==
    IF FatePanics(rnd) THEN Panic(st, "index out of bounds")
    ELSE
    LET tracks == [i \in Tracks |->
                    [length |-> FateLength(rnd, i),
                     steps  |-> FateSteps(rnd, i, FateLength(rnd, i)),
                     offset |-> FateOffset(rnd, i, FateLength(rnd, i))]]
        seed   == DivU32(rnd[6 * TRACK_COUNT], U32MaxDiv(9999)) + SEED_BASE
        st1    == [st EXCEPT !.params.tracks = tracks, !.params.seed = seed]
    IN  IF RegeneratePanics(st1) THEN Panic(st1, "assertion failed")
        ELSE [regenerate(st1) EXCEPT !.next_is_reset = TRUE]

\* Oper::Tick that pays no heed to a Reset before it
OperTickNeverResets(acc, now, interval) ==
    LET st  == acc.st
        st1 == [st EXCEPT
                  !.last = now,
                  !.predicted = TempoPredict(st.tempo, interval),
                  !.tempo = TempoObserve(st.tempo, interval),
                  !.tick_count = st.tick_count + 1,
                  !.playhead = st.playhead + 1,
                  !.next_is_reset = FALSE]
    IN  [acc EXCEPT !.st = update_track_playhead(st1)]

\* Oper::Tick
OperTick(acc, now, interval) ==
    LET st  == acc.st
        st1 == [st EXCEPT
                  !.last = now,
                  !.predicted = TempoPredict(st.tempo, interval),
                  !.tempo = TempoObserve(st.tempo, interval),
                  !.tick_count = st.tick_count + 1,
                  !.playhead = IF st.next_is_reset THEN 0 ELSE st.playhead + 1,
                  !.next_is_reset = FALSE]
    IN  [acc EXCEPT !.st = update_track_playhead(st1)]

\* Oper::Reset that moves the playhead to 0 at once and arms nothing
OperResetAtOnce(acc) ==
    [acc EXCEPT !.st = [acc.st EXCEPT !.tempo = TempoReset(acc.st.tempo), !.playhead = 0]]

\* Oper::Reset
OperReset(acc) ==
    [acc EXCEPT !.st = [acc.st EXCEPT !.tempo = TempoReset(acc.st.tempo), !.next_is_reset = TRUE]]

\* Oper::Seed with the upper end of the range off by one
OperSeedOffByOne(acc, x, rnd) ==
    LET st == acc.st
        s  == st.params.seed - SEED_BASE
        n  == s + x
    IN  IF st.input_mode = Fate
        THEN [acc EXCEPT !.st = tonight_im_in_the_hands_of_fate(st, rnd)]
        ELSE IF build = "debug" /\ s < 0
        THEN [acc EXCEPT !.st = Panic(st, "attempt to subtract with overflow")]
        ELSE IF n >= 0 /\ n <= 10000
        THEN Acc([st EXCEPT !.params.seed = n + SEED_BASE], SeedMode, TRUE)
        ELSE acc

\* Oper::Seed
OperSeed(acc, x, rnd) ==
    LET st == acc.st
        s  == st.params.seed - SEED_BASE
        n  == s + x
    IN  IF st.input_mode = Fate
        THEN [acc EXCEPT !.st = tonight_im_in_the_hands_of_fate(st, rnd)]
        ELSE IF build = "debug" /\ s < 0
        THEN [acc EXCEPT !.st = Panic(st, "attempt to subtract with overflow")]
        ELSE IF n >= 0 /\ n <= 9999
        THEN Acc([st EXCEPT !.params.seed = n + SEED_BASE], SeedMode, TRUE)
        ELSE acc

\* Oper::SeedClick
OperSeedClick(acc) ==
    [acc EXCEPT !.input_mode = IF acc.st.input_mode = Fate THEN SeedMode ELSE Fate]

\* Oper::Length
OperLength(acc, x) ==
    LET st == acc.st
        s  == WrapI8(st.params.pattern_length)
        n  == AddI8(s, x)
    IN  IF AddOverflows(s, x)
        THEN [acc EXCEPT !.st = Panic(st, "attempt to add with overflow")]
        ELSE IF n >= 2 /\ n <= 64
        THEN Acc([st EXCEPT !.params.pattern_length = AsU8(n)], LengthMode, TRUE)
        ELSE acc

\* Oper::LengthClick
OperLengthClick(acc) == [acc EXCEPT !.st = Panic(acc.st, "not yet implemented")]

\* Oper::Offset
OperOffset(acc, now, tr, x) ==
    LET st == acc.st
        t  == st.params.tracks[tr]
        s  == WrapI8(t.offset)
        l  == WrapI8(t.length)
        n  == WhileAtLeast(WhileNegative(AddI8(s, x), l), l)
    IN  IF st.input_mode = Mode("Lfo", tr)
        THEN IF SetModePanics(st.lfo[tr], x, build = "release")
             THEN [acc EXCEPT !.st = Panic(st, "set_mode")]
             ELSE [acc EXCEPT
                     !.st = [st EXCEPT !.lfo[tr] = set_mode(st.lfo[tr], x, build = "release"),
                                       !.last_action = now],
                     !.regenerate = TRUE]
        ELSE IF AddOverflows(s, x)
        THEN [acc EXCEPT !.st = Panic(st, "attempt to add with overflow")]
        ELSE Acc([st EXCEPT !.params.tracks[tr].offset = AsU8(n)], Mode("Offset", tr), TRUE)

\* Oper::OffsetClick
OperOffsetClickOneWay(acc, tr) == [acc EXCEPT !.input_mode = Mode("Lfo", tr)]

\* Oper::OffsetClick
OperOffsetClick(acc, tr) ==
    [acc EXCEPT !.input_mode =
        IF acc.st.input_mode = Mode("Lfo", tr) THEN Mode("Offset", tr) ELSE Mode("Lfo", tr)]


\* the joint steps/length adjustment of Oper::Steps: <<steps, length>> as i8
StepsWrapGrow(n) == IF n[1] > n[2] THEN <<0, AddI8(n[2], 1)>> ELSE n

\* the wrap-shrink that leaves no steps set
StepsWrapShrinkToZero(n) == IF n[1] < 0 THEN <<0, AddI8(n[2], -1)>> ELSE n

StepsWrapShrink(n) == IF n[1] < 0 THEN <<AddI8(n[2], -1), AddI8(n[2], -1)>> ELSE n

\* the clamp without the upper end of the length
StepsClampNoMax(n) ==
    LET n1 == IF n[1] < 0 THEN 0 ELSE n[1]
        n2 == IF n[2] < 2 THEN 2 ELSE n[2]
    IN  <<IF n1 > n2 THEN n2 ELSE n1, n2>>

StepsClamp(n) ==
    LET n1 == IF n[1] < 0 THEN 0 ELSE n[1]
        n2 == IF n[2] < 2 THEN 2 ELSE IF n[2] > 64 THEN 64 ELSE n[2]
    IN  <<IF n1 > n2 THEN n2 ELSE n1, n2>>

StepsAdjust(steps, length, x) ==
    StepsClamp(StepsWrapShrink(StepsWrapGrow(<<AddI8(WrapI8(steps), x), WrapI8(length)>>)))

\* Oper::Steps
OperSteps(acc, now, tr, x) ==
    LET st == acc.st
        t  == st.params.tracks[tr]
        n  == StepsAdjust(t.steps, t.length, x)
    IN  IF st.input_mode = Mode("TrackSync", tr)
        THEN IF AddOverflows(st.track_sync[tr], x)
             THEN [acc EXCEPT !.st = Panic(st, "attempt to add with overflow")]
             ELSE [acc EXCEPT !.st = [st EXCEPT
                     !.track_sync[tr] = TrackSyncFrom(AddI8(st.track_sync[tr], x)),
                     !.last_action = now]]
        ELSE IF AddOverflows(WrapI8(t.steps), x)
        THEN [acc EXCEPT !.st = Panic(st, "attempt to add with overflow")]
        ELSE Acc([st EXCEPT !.params.tracks[tr].steps = AsU8(n[1]),
                            !.params.tracks[tr].length = AsU8(n[2])],
                 Mode("Steps", tr), TRUE)

\* Oper::StepsClick
OperStepsClick(acc, tr) ==
    [acc EXCEPT !.input_mode =
        IF acc.st.input_mode = Mode("TrackSync", tr) THEN Mode("Steps", tr) ELSE Mode("TrackSync", tr)]

\* the body of the loop of State::update for one operation
Handle(acc, now, oper, rnd) ==
    CASE oper.op = "Tick"        -> OperTick(acc, now, oper.x)
      [] oper.op = "Reset"       -> OperReset(acc)
      [] oper.op = "Seed"        -> OperSeed(acc, oper.x, rnd)
      [] oper.op = "SeedClick"   -> OperSeedClick(acc)
      [] oper.op = "Length"      -> OperLength(acc, oper.x)
      [] oper.op = "LengthClick" -> OperLengthClick(acc)
      [] oper.op = "Offset"      -> OperOffset(acc, now, oper.tr, oper.x)
      [] oper.op = "OffsetClick" -> OperOffsetClick(acc, oper.tr)
      [] oper.op = "Steps"       -> OperSteps(acc, now, oper.tr, oper.x)
      [] OTHER                   -> OperStepsClick(acc, oper.tr)

\* the loop of State::update; an abort ends it
RECURSIVE HandleAll(_, _, _, _)
HandleAll(acc, now, todo, rnd) ==
    IF todo = <<>> \/ acc.st.panic # "none" THEN acc
    ELSE HandleAll(Handle(acc, now, Head(todo), rnd), now, Tail(todo), rnd)

\* the end of State::update stamping last_action on every call
FinishAlwaysStamp(acc, now) ==
    LET st1 == IF acc.regenerate
               THEN IF RegeneratePanics(acc.st) THEN Panic(acc.st, "assertion failed")
                    ELSE regenerate(acc.st)
               ELSE acc.st
    IN  IF st1.panic # "none" THEN st1
        ELSE IF acc.input_mode = None THEN [st1 EXCEPT !.last_action = now]
        ELSE [st1 EXCEPT !.input_mode = acc.input_mode, !.last_action = now]

\* what follows the loop of State::update
Finish(acc, now) ==
    LET st1 == IF acc.regenerate
               THEN IF RegeneratePanics(acc.st) THEN Panic(acc.st, "assertion failed")
                    ELSE regenerate(acc.st)
               ELSE acc.st
    IN  IF st1.panic # "none" \/ acc.input_mode = None THEN st1
        ELSE [st1 EXCEPT !.input_mode = acc.input_mode, !.last_action = now]

\* State::update
update(st, now, todo, rnd) ==
    LET acc == HandleAll(Acc(st, None, FALSE), now, todo, rnd)
    IN  IF acc.st.panic # "none" THEN acc.st ELSE Finish(acc, now)

\* the counts of the cycle counter in a second: CPU_SPEED, scaled down
CountsPerSec == 1

\* the idle timeout has run out as soon as five seconds have passed
IdleExpiredAtFive(now, last_action) == now - last_action >= 5 * CountsPerSec

\* now - self.last_action > Time::from_secs(5)
IdleExpired(now, last_action) == now - last_action > 5 * CountsPerSec

\* pred of track_offset: (lapsed.min(predicted) * per_tick) / predicted in 64 bits,
\* taken apart so that no intermediate result passes 31 bits
Pred(lapsed, predicted, per_tick) ==
    IF predicted > 0
    THEN Min(lapsed, predicted) * (per_tick \div predicted)
         + (Min(lapsed, predicted) * (per_tick % predicted)) \div predicted
    ELSE 0

\* (ph as u64 * pt + pd) as u32, in limbs of 16 bits
MulAddU32(ph, pt, pd) ==
    LET lo == ph * (pt % 65536) + (pd % 65536)
        hi == ph * (pt \div 65536) + (pd \div 65536) + (lo \div 65536)
    IN  U32((hi % 65536) * 32768 + ((lo % 65536) \div 2), lo % 2)

\* State::track_offset
track_offset(st, now) ==
    [i \in Tracks |->
        MulAddU32(st.track_playhead[i], st.track_per_tick[i],
                  Pred(Max(now - st.last, 0), st.predicted, st.track_per_tick[i]))]

\* State::update_time
update_time(st, now) ==
    LET st1 == IF st.input_mode # Run /\ IdleExpired(now, st.last_action)
               THEN [st EXCEPT !.input_mode = Run] ELSE st
        lfo == [i \in Tracks |-> [st1.lfo[i] EXCEPT !.offset = track_offset(st1, now)[i]]]
    IN  IF \E i \in Tracks : LfoUpdatePanics(lfo[i], FALSE)
        THEN Panic(st1, "assertion failed")
        ELSE [st1 EXCEPT !.lfo = [i \in Tracks |-> LfoUpdate(lfo[i], FALSE)]]

\* Default::default for State, before State::new fills params and generated
StateDefault(params) ==
    [input_mode |-> Run, last_action |-> 0, params |-> params,
     generated |-> GeneratedNew(params),
     lfo |-> [i \in Tracks |-> LfoDefault],
     track_sync |-> [i \in Tracks |-> Sync],
     playhead |-> 0, tick_count |-> 0,
     track_playhead |-> [i \in Tracks |-> 0],
     track_per_tick |-> [i \in Tracks |-> 0],
     next_is_reset |-> FALSE, tempo |-> TempoNew, last |-> 0, predicted |-> 0,
     panic |-> "none"]

\* State::new, for the parameters STOKAST_PARAMS
StateNew(params) == regenerate(StateDefault(params))


----------------------------------------------------------------------------
(* Gate (output.rs).  clear_at is -1 for None.  pin is what set_hilo was   *)
(* last called with ("unset" before the first call; TRUE is inactive), and *)
(* wrote tells whether the latest tick called set_hilo at all.             *)

GateNew(duty_percent) ==
    [duty_percent |-> duty_percent, clear_at |-> -1, high |-> FALSE,
     pin |-> "unset", wrote |-> FALSE]

\* the comparison that lets the clear time itself pass
RetainDueLate(now, clear_at) == now > clear_at

\* GateSet::Retain: the comparison that decides whether the duty cycle is over
RetainDue(now, clear_at) == now >= clear_at

GateRetain(g, now) ==
    IF g.clear_at # -1 /\ RetainDue(now, g.clear_at)
    THEN [g EXCEPT !.clear_at = -1, !.pin = TRUE, !.high = FALSE, !.wrote = TRUE]
    ELSE [g EXCEPT !.wrote = FALSE]

\* GateSet::Set
GateSetHigh(g, now, predicted) ==
    [g EXCEPT !.pin = FALSE, !.high = TRUE, !.wrote = TRUE,
              !.clear_at = now + (predicted * g.duty_percent) \div 100]

\* GateSet::Clear leaving the pending clear time in place
GateClearKeepsTime(g) == [g EXCEPT !.pin = TRUE, !.high = FALSE, !.wrote = TRUE]

\* GateSet::Clear
GateClear(g) == [g EXCEPT !.pin = TRUE, !.high = FALSE, !.clear_at = -1, !.wrote = TRUE]

\* Gate::tick
GateTick(g, now, set, predicted) ==
    CASE set = "Retain" -> GateRetain(g, now)
      [] set = "Set"    -> GateSetHigh(g, now, predicted)
      [] OTHER          -> GateClear(g)

\* the pattern of track i at the position k: the patterns of alg::gen are a function
\* of the parameters; here a track of steps hits spread over its length
PatternBit(gen, i, k) ==
    LET t == gen.params.tracks[i]
    IN  ((k % t.length) * t.steps) % t.length < t.steps

\* impl From<u8> for GateSet
GateSetFrom(bit) == IF bit THEN "Set" ELSE "Clear"

\* the Outputs main builds: playhead_last 0 and four gates of 50 percent duty;
\* gs are the commands of the latest tick and mute the mutes it read
OutputsNew ==
    [playhead_last |-> 0,
     gates |-> [i \in Tracks |-> GateNew(50)],
     gs |-> [i \in Tracks |-> "Retain"],
     mute |-> [i \in Tracks |-> FALSE]]

\* Outputs::tick
OutputsTick(o, now, st, mute) ==
    LET moved == playhead(st) # o.playhead_last
        gs == [i \in Tracks |->
                 IF ~moved \/ mute[i] THEN "Retain"
                 ELSE GateSetFrom(PatternBit(st.generated, i, st.track_playhead[i]))]
    IN  [playhead_last |-> IF moved THEN playhead(st) ELSE o.playhead_last,
         gates |-> [i \in Tracks |-> GateTick(o.gates[i], now, gs[i], st.predicted)],
         gs |-> gs, mute |-> mute]

----------------------------------------------------------------------------
(* Encoder (encoder.rs).  direction is the table entry of the latest tick  *)
(* and result the value the tick returned.                                 *)

\* the table with the entry of 1101 zeroed
TABLE_Missing1101 == <<0, -1, 1, 0, 1, 0, 0, -1, -1, 0, 0, 1, 0, 0, -1, 0>>

TABLE == <<0, -1, 1, 0, 1, 0, 0, -1, -1, 0, 0, 1, 0, 1, -1, 0>>

EncoderNew == [prev_next |-> 0, state |-> 0, direction |-> 0, result |-> 0]

\* Encoder::tick shifting the state register on every sample, a repeated one included
EncoderTickShiftAlways(e, a, b) ==
    LET prev_next == ((e.prev_next * 4) % 16) + (IF a THEN 2 ELSE 0) + (IF b THEN 1 ELSE 0)
        direction == TABLE[prev_next + 1]
        st        == (e.state * 16 + prev_next) % 256
    IN  [prev_next |-> prev_next, state |-> st, direction |-> direction,
         result |-> IF direction # 0 /\ st = 232 THEN -1
                    ELSE IF direction # 0 /\ st = 212 THEN 1 ELSE 0]

\* Encoder::tick deciding on the latest transition alone, without the one before it
EncoderTickLatestOnly(e, a, b) ==
    LET prev_next == ((e.prev_next * 4) % 16) + (IF a THEN 2 ELSE 0) + (IF b THEN 1 ELSE 0)
        direction == TABLE[prev_next + 1]
        st        == IF direction # 0 THEN (e.state * 16 + prev_next) % 256 ELSE e.state
    IN  [prev_next |-> prev_next, state |-> st, direction |-> direction,
         result |-> IF direction # 0 /\ st % 16 = 8 THEN -1
                    ELSE IF direction # 0 /\ st % 16 = 4 THEN 1 ELSE 0]

\* Encoder::tick, for the sampled levels of pin_a and pin_b
EncoderTick(e, a, b) ==
    LET prev_next == ((e.prev_next * 4) % 16) + (IF a THEN 2 ELSE 0) + (IF b THEN 1 ELSE 0)
        direction == TABLE[prev_next + 1]
        st        == IF direction # 0 THEN (e.state * 16 + prev_next) % 256 ELSE e.state
    IN  [prev_next |-> prev_next, state |-> st, direction |-> direction,
         result |-> IF direction # 0 /\ st = 232 THEN -1
                    ELSE IF direction # 0 /\ st = 212 THEN 1 ELSE 0]


----------------------------------------------------------------------------
(* The operation queue (state.rs) and the input decoder (input.rs).  A     *)
(* report tells what each control returns from its tick in one pass: the   *)
(* delta of an encoder (0: none), whether a button had its rising edge,    *)
(* whether reset had its falling edge and the time of the falling edge of  *)
(* clock (-1: none).                                                        *)

\* the capacity of OperQueue
OPER_QUEUE_CAP == 64

\* ArrayVec::push aborts when the queue is full
PushPanics(todo, pushed) == Len(todo) + Len(pushed) > OPER_QUEUE_CAP

\* the operation o, if the condition c holds
Opt(c, o) == IF c THEN <<o>> ELSE <<>>

\* the part of Inputs::tick that runs in every pass
InputsAlways(clock_last, r) ==
    Opt(r.reset, Oper("Reset", 0, 0))
    \o Opt(r.clock # -1 /\ clock_last # -1, Oper("Tick", 0, r.clock - clock_last))
    \o Opt(r.seed # 0, Oper("Seed", 0, r.seed))

\* the encoder and the button of each of the four tracks, in the order 1 to 4
InputsTracks(op, click, deltas, buttons) ==
    Opt(deltas[1] # 0, Oper(op, 0, deltas[1])) \o Opt(buttons[1], Oper(click, 0, 0))
    \o Opt(deltas[2] # 0, Oper(op, 1, deltas[2])) \o Opt(buttons[2], Oper(click, 1, 0))
    \o Opt(deltas[3] # 0, Oper(op, 2, deltas[3])) \o Opt(buttons[3], Oper(click, 2, 0))
    \o Opt(deltas[4] # 0, Oper(op, 3, deltas[4])) \o Opt(buttons[4], Oper(click, 3, 0))

\* the part of Inputs::tick that runs when an expander reading has changed
InputsIoExt(r) ==
    Opt(r.seed_btn, Oper("SeedClick", 0, 0))
    \o Opt(r.length # 0, Oper("Length", 0, r.length))
    \o Opt(r.length_btn, Oper("LengthClick", 0, 0))
    \o InputsTracks("Offset", "OffsetClick", r.offs, r.offs_btn)
    \o InputsTracks("Steps", "StepsClick", r.step, r.step_btn)

\* Inputs::tick: the operations it pushes and the clock_last it leaves
InputsTick(clock_last, r, io_ext_change) ==
    [pushed     |-> InputsAlways(clock_last, r) \o (IF io_ext_change THEN InputsIoExt(r) ELSE <<>>),
     clock_last |-> IF r.clock # -1 THEN r.clock ELSE clock_last]

----------------------------------------------------------------------------
(* Lock (lock.rs).  mem.cells is the memory that holds the locked values,  *)
(* one cell per address 1, 2, ...; mem.locks are the Lock instances in the *)
(* order they were made.  An Instance holds its value in place, in the     *)
(* cell at the address place; a Pointer holds the address ptr.  from is    *)
(* the instance a clone was made of (0 for one made by Lock::new).  The    *)
(* program never moves or drops an owner once it has made a clone of it.   *)

MemNew == [cells |-> <<>>, locks |-> <<>>]

\* Lock::as_ptr
as_ptr(l) == IF l.inner = "Instance" THEN l.place ELSE l.ptr

\* Lock::new(t)
LockNew(m, t) ==
    [cells |-> Append(m.cells, t),
     locks |-> Append(m.locks, [inner |-> "Instance", place |-> Len(m.cells) + 1, ptr |-> 0, from |-> 0])]

\* a clone that holds a copy of the value of its own
LockCloneCopies(m, i) ==
    [cells |-> Append(m.cells, m.cells[as_ptr(m.locks[i])]),
     locks |-> Append(m.locks, [inner |-> "Instance", place |-> Len(m.cells) + 1, ptr |-> 0, from |-> i])]

\* Lock::clone of instance i
LockClone(m, i) ==
    [cells |-> m.cells,
     locks |-> Append(m.locks, [inner |-> "Pointer", place |-> 0, ptr |-> as_ptr(m.locks[i]), from |-> i])]

\* an assignment through the guard of Lock::get of instance i
GuardWrite(m, i, t) == [m EXCEPT !.cells[as_ptr(m.locks[i])] = t]

\* Lock::read of instance i (and a read through its guard)
LockRead(m, i) == m.cells[as_ptr(m.locks[i])]

----------------------------------------------------------------------------
(* Bounds and input sets *)

\* the passes of the sequencer driver (Spec)
MaxClock == 2

\* the passes of the Seed, Length and Steps drivers
MaxClockSeed == 2
MaxClockLength == 3
MaxClockSteps == 3

\* the passes of the playhead driver
MaxClockTick == 7

\* the latest time of the gate driver
MaxGateTime == 7

\* the transitions of one motion of the encoder shaft
MaxMoves == 9

\* the transitions of one walk of the shaft from the rest pair and back
MaxWalk == 8

\* the Lock instances made, clones included
MaxLocks == 4

\* the values a Lock holds
LockValues == 0 .. 2

\* the passes of the timed drivers: of the idle timeout, of the playhead reset
MaxPasses == 4
MaxPassesReset == 6

\* the passes of the Offset driver
MaxClockOffset == 3

\* the time a pass of the main loop may take, in counts
TimeSteps == {1, 4}

\* the passes of the Fate driver
MaxClockFate == 2

\* the passes of the batch driver
MaxClockMix == 3

\* the passes of the phase driver
MaxPassesPhase == 4

\* the calls of the Lfo driver
MaxLfoCalls == 5

\* the passes of the driver of the gates without Ticks
MaxPassesRetain == 4

\* the counts after which the cycle counter of the endless loop wraps
ClockWrap == 2

\* the passes of the loop in which the order of the captures is noted
MaxClockOrder == 3

\* the edges of the interrupt pins in the endless loop
MaxLiveEdges == 2

\* the passes of the click driver
MaxClockClick == 3

\* the passes of the pass driver: with bus failures, with the gate outputs
MaxPassesBus == 3
MaxPassesOut == 4

\* the captures before a queue is full in which a reading may differ from 0
MaxTail == 2

\* the passes of the main loop: with every interleaving of its interrupt handlers,
\* with the clock edges counted, and with the controls in use
MaxClockIrq == 2
MaxClockClock == 3
MaxClockQueue == 2

\* the clock edges counted
MaxEdges == 3

I8 == -128 .. 127

Steps1 == {-1, 1}

Intervals == {2, 4}

\* STOKAST_PARAMS: the parameters State::new starts from
Params(seed, pattern_length, lengths, steps) ==
    [seed |-> seed + SEED_BASE, pattern_length |-> pattern_length,
     tracks |-> [i \in Tracks |-> [offset |-> 0, steps |-> steps[i + 1], length |-> lengths[i + 1]]]]

ParamsInits ==
    {Params(0, 64, <<64, 64, 64, 64>>, <<0, 0, 0, 0>>),
     Params(9999, 3, <<4, 3, 2, 5>>, <<0, 3, 1, 2>>)}

\* the draws of a Fate randomization: every draw the same value
RndValues == {ZeroU32, U32(1073741823, 0), U32(1073741823, 1), U32(I32_MAX, 0)}

RndStreams == {[k \in 0 .. (6 * TRACK_COUNT) |-> v] : v \in RndValues}

NoRnd == [k \in 0 .. (6 * TRACK_COUNT) |-> ZeroU32]

AllOpers ==
    {Oper("Tick", 0, i) : i \in Intervals}
    \cup {Oper("Reset", 0, 0), Oper("SeedClick", 0, 0), Oper("LengthClick", 0, 0)}
    \cup {Oper(op, 0, x) : op \in {"Seed", "Length"}, x \in Steps1}
    \cup {Oper(op, tr, x) : op \in {"Offset", "Steps"}, tr \in Tracks, x \in Steps1}
    \cup {Oper(op, tr, 0) : op \in {"OffsetClick", "StepsClick"}, tr \in Tracks}

PairOpers ==
    {Oper("Tick", 0, 2), Oper("Reset", 0, 0), Oper("SeedClick", 0, 0), Oper("Seed", 0, 1),
     Oper("Length", 0, -1), Oper("Steps", 1, 1), Oper("StepsClick", 1, 0)}

Batches == {<<>>} \cup {<<o>> : o \in AllOpers} \cup {<<o1, o2>> : o1 \in PairOpers, o2 \in PairOpers}

----------------------------------------------------------------------------
(* The drivers.  A pass reads the clock and queues operations (Poll), then *)
(* hands them to State::update (Update).  An aborted program stays put.    *)

\* the locals of main before the loop (clk_last = None), at the top of the loop body;
\* took_rst, took_clk and had_last tell what the pass found in clk_flags, pushed how
\* many operations it has queued
MainNew ==
    [pc |-> "top", now |-> 0, any_lfo_upd |-> FALSE, clk_change |-> FALSE,
     io_ext_flags_change |-> FALSE, io_ext_change |-> FALSE, clk_last |-> -1,
     guard |-> "none", took_rst |-> FALSE, took_clk |-> FALSE, had_last |-> FALSE,
     pushed |-> 0]

NoAccess == [who |-> "none", cell |-> "none", kind |-> "none", via |-> "none",
             masked |-> FALSE, held |-> "none"]

\* the bus transactions that failed in the latest critical section of the main loop
NoBusError == [dac |-> FALSE, ext |-> FALSE, seg |-> FALSE]

\* what has happened so far: the clock edges counted and whether one arrived before
\* the one before it was taken; the passes of the timed driver, the time of the
\* latest user operation State::update acted on, whether a Reset was applied since
\* the latest Tick, and the Ticks applied after the latest resetting Tick (-1: none)
\* the calls on one Lfo so far: the value most recently made pending (-1: none yet)
\* and how many were; how many Lfo::tick has returned; the gate rises and the values
\* made pending in Random mode; and of the latest call its name, whether it made a
\* value pending, the sample of the mode after it and the value pending most
\* recently before it
LfoHistNew ==
    [made |-> -1, made_n |-> 0, out_n |-> 0, rises |-> 0, rnd_n |-> 0,
     call |-> "none", did |-> FALSE, sample |-> -1, prior |-> -1]

HistNew == [edges |-> 0, overrun |-> FALSE, passes |-> 0, acted |-> 0,
            armed |-> FALSE, since |-> -1, bus |-> NoBusError, lfo |-> LfoHistNew,
            order |-> "none"]

\* the flag cells as main creates them, no interrupt pending, interrupts enabled
InitIrq ==
    /\ primask = FALSE
    /\ clk_flags = [rst |-> FALSE, clk |-> -1]
    /\ io_ext_flags = [f1 |-> FALSE, f2 |-> FALSE]
    /\ pending = [rst |-> FALSE, clk |-> FALSE, ext1 |-> FALSE, ext2 |-> FALSE]
    /\ main = MainNew
    /\ access = NoAccess
    /\ hist = HistNew

\* the shaft is not in a motion that is being followed
KnobIdle == [motion |-> "free", at |-> 0, other |-> 0, moves |-> 0, plus |-> 0, minus |-> 0,
             net |-> 0]

InitOther ==
    /\ gate = GateNew(50)
    /\ gate_in = [set |-> "Retain", predicted |-> 0]
    /\ outputs = OutputsNew
    /\ enc = EncoderNew
    /\ knob = KnobIdle
    /\ mem = MemNew
    /\ lock_op = [op |-> "none", lock |-> 0, value |-> 0]
    /\ InitIrq

InitState(params) ==
    /\ build \in {"debug", "release"}
    /\ clock = 0
    /\ pc = "poll"
    /\ opers = <<>>
    /\ state \in {StateNew(p) : p \in params}
    /\ handled = -1
    /\ InitOther

Poll(batches, max) ==
    /\ pc = "poll"
    /\ state.panic = "none"
    /\ clock < max
    /\ clock' = clock + 1
    /\ opers' \in batches
    /\ pc' = "update"
    /\ UNCHANGED <<build, state, handled, gate, gate_in, outputs, enc, newVars>>

\* a Seed operation in Fate mode draws from the random generator
Draws == IF state.input_mode = Fate /\ \E k \in 1 .. Len(opers) : opers[k].op = "Seed"
         THEN RndStreams ELSE {NoRnd}

Update ==
    /\ pc = "update"
    /\ \E rnd \in Draws : state' = update(state, clock, opers, rnd)
    /\ opers' = <<>>
    /\ handled' = Len(opers)
    /\ pc' = "poll"
    /\ UNCHANGED <<build, clock, gate, gate_in, outputs, enc, newVars>>

PollAny == Poll(Batches, MaxClock)

Init == InitState(ParamsInits)

Next == PollAny \/ Update

Spec == Init /\ [][Next]_vars


----------------------------------------------------------------------------
(* The Seed driver: Seed operations with every 8-bit delta *)

SeedParams == {Params(s, 16, <<4, 3, 2, 5>>, <<0, 3, 1, 2>>) : s \in {0, 5000, 9999}}

SeedBatches == {<<Oper("Seed", 0, d)>> : d \in I8}

PollSeed == Poll(SeedBatches, MaxClockSeed)

InitSeed == InitState(SeedParams)

NextSeed == PollSeed \/ Update

SpecSeed == InitSeed /\ [][NextSeed]_vars

(* The Length driver: Length operations with every 8-bit delta *)

LengthParams == {Params(0, l, <<4, 3, 2, 5>>, <<0, 3, 1, 2>>) : l \in {2, 33, 64}}

LengthBatches == {<<Oper("Length", 0, d)>> : d \in I8}

PollLength == Poll(LengthBatches, MaxClockLength)

InitLength == InitState(LengthParams)

NextLength == PollLength \/ Update

SpecLength == InitLength /\ [][NextLength]_vars

(* The Steps driver: Steps operations one detent at a time, from every     *)
(* length of track 0 with no steps or all steps set                        *)

StepsParams ==
    {Params(0, 16, <<l, 3, 64, 2>>, <<s, 3, 63, 0>>) : l \in 2 .. 64, s \in {0}}
    \cup {Params(0, 16, <<l, 3, 64, 2>>, <<l, 3, 63, 0>>) : l \in 2 .. 64}

StepsBatches == {<<Oper("Steps", tr, d)>> : tr \in Tracks, d \in Steps1}

PollSteps == Poll(StepsBatches, MaxClockSteps)

InitSteps == InitState(StepsParams)

NextSteps == PollSteps \/ Update

SpecSteps == InitSteps /\ [][NextSteps]_vars

(* The playhead driver: clock ticks and resets, from the sync policies     *)
(* that StepsClick and Steps turns leave behind                            *)

TickParams ==
    {Params(0, 16, <<4, 3, 2, 5>>, <<0, 3, 1, 2>>),
     Params(0, 3, <<2, 5, 3, 4>>, <<0, 0, 0, 0>>),
     Params(0, 4, <<3, 3, 3, 3>>, <<1, 1, 1, 1>>)}

TrackSyncs ==
    {<<Sync, Sync, Sync, Sync>>, <<Sync, Free, Loop, Sync>>, <<Free, Loop, Sync, Free>>,
     <<Loop, Sync, Free, Loop>>}

TickBatches ==
    {<<Oper("Tick", 0, i)>> : i \in Intervals}
    \cup {<<Oper("Reset", 0, 0)>>, <<Oper("Reset", 0, 0), Oper("Tick", 0, 2)>>}

PollTick == Poll(TickBatches, MaxClockTick)

InitTick ==
    /\ build \in {"debug", "release"}
    /\ clock = 0
    /\ pc = "poll"
    /\ opers = <<>>
    /\ state \in {[StateNew(p) EXCEPT !.track_sync = [i \in Tracks |-> ts[i + 1]]] :
                    p \in TickParams, ts \in TrackSyncs}
    /\ handled = -1
    /\ InitOther

NextTick == PollTick \/ Update

SpecTick == InitTick /\ [][NextTick]_vars

----------------------------------------------------------------------------
(* The gate driver: Gate::tick at non-decreasing times *)

GateSets == {"Retain", "Set", "Clear"}

Predicted == {0, 3, 4, 7}

DutyPercents == {25, 50, 100}

InitGate ==
    /\ build \in {"debug", "release"}
    /\ clock = 0
    /\ pc = "poll"
    /\ opers = <<>>
    /\ state = StateNew(Params(0, 16, <<4, 3, 2, 5>>, <<0, 3, 1, 2>>))
    /\ handled = -1
    /\ gate \in {GateNew(d) : d \in DutyPercents}
    /\ gate_in = [set |-> "Retain", predicted |-> 0]
    /\ outputs = OutputsNew
    /\ enc = EncoderNew
    /\ knob = KnobIdle
    /\ mem = MemNew
    /\ lock_op = [op |-> "none", lock |-> 0, value |-> 0]
    /\ InitIrq

GateStep ==
    \E dt \in 0 .. 2, set \in GateSets, predicted \in Predicted :
        /\ clock + dt <= MaxGateTime
        /\ clock' = clock + dt
        /\ gate' = GateTick(gate, clock', set, predicted)
        /\ gate_in' = [set |-> set, predicted |-> predicted]
        /\ UNCHANGED <<build, pc, opers, state, handled, outputs, enc, newVars>>

NextGate == GateStep

SpecGate == InitGate /\ [][NextGate]_vars

----------------------------------------------------------------------------
(* The encoder driver: Encoder::tick on any sampled pin levels *)

InitEncoder == InitState({Params(0, 16, <<4, 3, 2, 5>>, <<0, 3, 1, 2>>)})

EncoderStep ==
    \E a \in BOOLEAN, b \in BOOLEAN :
        /\ enc' = EncoderTick(enc, a, b)
        /\ UNCHANGED <<build, clock, pc, opers, state, handled, gate, gate_in, outputs, newVars>>

NextEncoder == EncoderStep

SpecEncoder == InitEncoder /\ [][NextEncoder]_vars

----------------------------------------------------------------------------
(* The shaft driver: Encoder::tick while the shaft is moved in one way.  A  *)
(* phase pair is the number 2A + B.  After any samples at all (KnobFree) the *)
(* shaft starts a rotation from the pair 11 or a bounce between two adjacent *)
(* pairs; knob counts the transitions of the motion and the +1 and -1 that   *)
(* Encoder::tick returned during it.                                         *)

\* the clockwise successor of a phase pair: 11 -> 01 -> 00 -> 10 -> 11
Clockwise(p) == CASE p = 3 -> 1 [] p = 1 -> 0 [] p = 0 -> 2 [] OTHER -> 3

\* the counter-clockwise successor of a phase pair: 11 -> 10 -> 00 -> 01 -> 11
CounterClockwise(p) == CASE p = 3 -> 2 [] p = 2 -> 0 [] p = 0 -> 1 [] OTHER -> 3

\* Encoder::tick with the pins at the phase pair p
Sample(p) == EncoderTick(enc, p \div 2 = 1, p % 2 = 1)

\* the counts of knob k after a tick that returned r
Counted(k, r) ==
    [k EXCEPT !.plus = @ + (IF r = 1 THEN 1 ELSE 0), !.minus = @ + (IF r = -1 THEN 1 ELSE 0)]

KnobFree == knob.motion = "free" /\ EncoderStep

KnobStartTurn ==
    /\ knob.motion = "free"
    /\ enc' = Sample(3)
    /\ \E m \in {"cw", "ccw"} : knob' = [KnobIdle EXCEPT !.motion = m, !.at = 3, !.other = 3]
    /\ UNCHANGED <<seqVars, gateVars, lockVars, irqVars>>

KnobStartBounce ==
    /\ knob.motion = "free"
    /\ \E p \in 0 .. 3, q \in 0 .. 3 :
          /\ q \in {Clockwise(p), CounterClockwise(p)}
          /\ enc' = Sample(p)
          /\ knob' = [KnobIdle EXCEPT !.motion = "bounce", !.at = p, !.other = q]
    /\ UNCHANGED <<seqVars, gateVars, lockVars, irqVars>>

\* the next transition of the rotation
KnobTurn ==
    /\ knob.motion \in {"cw", "ccw"}
    /\ knob.moves < MaxMoves
    /\ LET p == IF knob.motion = "cw" THEN Clockwise(knob.at) ELSE CounterClockwise(knob.at)
       IN  /\ enc' = Sample(p)
           /\ knob' = Counted([knob EXCEPT !.at = p, !.other = p, !.moves = @ + 1], enc'.result)
    /\ UNCHANGED <<seqVars, gateVars, lockVars, irqVars>>

\* the next transition of the bounce: back to the other pair
KnobBounce ==
    /\ knob.motion = "bounce"
    /\ knob.moves < MaxMoves
    /\ enc' = Sample(knob.other)
    /\ knob' = Counted([knob EXCEPT !.at = knob.other, !.other = knob.at, !.moves = @ + 1],
                       enc'.result)
    /\ UNCHANGED <<seqVars, gateVars, lockVars, irqVars>>

\* the same pair sampled once more
KnobHold ==
    /\ knob.motion # "free"
    /\ enc' = Sample(knob.at)
    /\ knob' = Counted(knob, enc'.result)
    /\ UNCHANGED <<seqVars, gateVars, lockVars, irqVars>>

NextKnob == KnobFree \/ KnobStartTurn \/ KnobStartBounce \/ KnobTurn \/ KnobBounce \/ KnobHold

SpecKnob == InitEncoder /\ [][NextKnob]_vars

\* the shaft at rest at the pair 11, about to be moved either way
KnobStartWalk ==
    /\ knob.motion = "free"
    /\ enc' = Sample(3)
    /\ knob' = [KnobIdle EXCEPT !.motion = "walk", !.at = 3, !.other = 3]
    /\ UNCHANGED <<seqVars, gateVars, lockVars, irqVars>>

\* one valid transition, clockwise or counter-clockwise; net counts the quarter turns,
\* clockwise ones up and counter-clockwise ones down
KnobWalk ==
    /\ knob.motion = "walk"
    /\ knob.moves < MaxWalk
    /\ \E d \in {1, -1} :
          LET p == IF d = 1 THEN Clockwise(knob.at) ELSE CounterClockwise(knob.at)
          IN  /\ enc' = Sample(p)
              /\ knob' = Counted([knob EXCEPT !.at = p, !.other = p, !.moves = @ + 1,
                                              !.net = @ + d], enc'.result)
    /\ UNCHANGED <<seqVars, gateVars, lockVars, irqVars>>

NextWalk == KnobFree \/ KnobStartWalk \/ KnobWalk

SpecWalk == InitEncoder /\ [][NextWalk]_vars

----------------------------------------------------------------------------
(* The Lock driver: Lock::new, clone, writes through a guard inside a      *)
(* critical section and reads, on any instance and in any order.           *)

LockOp(op, i, t) == [op |-> op, lock |-> i, value |-> t]

DoLockNew ==
    /\ Len(mem.locks) < MaxLocks
    /\ \E t \in LockValues :
          /\ mem' = LockNew(mem, t)
          /\ lock_op' = LockOp("new", Len(mem.locks) + 1, t)
    /\ UNCHANGED <<seqVars, gateVars, enc, knob, irqVars>>

DoLockClone ==
    /\ Len(mem.locks) < MaxLocks
    /\ \E i \in 1 .. Len(mem.locks) :
          /\ mem' = LockClone(mem, i)
          /\ lock_op' = LockOp("clone", i, LockRead(mem, i))
    /\ UNCHANGED <<seqVars, gateVars, enc, knob, irqVars>>

DoGuardWrite ==
    /\ \E i \in 1 .. Len(mem.locks), t \in LockValues :
          /\ mem' = GuardWrite(mem, i, t)
          /\ lock_op' = LockOp("write", i, t)
    /\ UNCHANGED <<seqVars, gateVars, enc, knob, irqVars>>

DoLockRead ==
    /\ \E i \in 1 .. Len(mem.locks) :
          /\ lock_op' = LockOp("read", i, LockRead(mem, i))
          /\ lock_op' # lock_op
    /\ UNCHANGED <<seqVars, gateVars, enc, knob, mem, irqVars>>

NextLock == DoLockNew \/ DoLockClone \/ DoGuardWrite \/ DoLockRead

SpecLock == InitEncoder /\ [][NextLock]_vars

----------------------------------------------------------------------------
(* The main loop and its interrupt handlers (main.rs).  main.pc is the     *)
(* position in the loop body; a handler runs as one step, as soon as its   *)
(* pin has its status bit set and interrupts are enabled, and runs to its  *)
(* end before the main loop goes on.  cortex_m::interrupt::free disables interrupts for   *)
(* its closure and enables them again after it.  The cycle counter goes on *)
(* by one per pass.  main builds Inputs (main.rs 217-345) with no reset    *)
(* and no clock input, so no report has an edge of these.                  *)

QuietReport ==
    [reset |-> FALSE, clock |-> -1, seed |-> 0, seed_btn |-> FALSE,
     length |-> 0, length_btn |-> FALSE,
     offs |-> <<0, 0, 0, 0>>, offs_btn |-> <<FALSE, FALSE, FALSE, FALSE>>,
     step |-> <<0, 0, 0, 0>>, step_btn |-> <<FALSE, FALSE, FALSE, FALSE>>]

\* every encoder turned and every button pressed (the length button or not)
BusyReport(length_btn) ==
    [reset |-> FALSE, clock |-> -1, seed |-> 1, seed_btn |-> TRUE,
     length |-> 1, length_btn |-> length_btn,
     offs |-> <<1, 1, 1, 1>>, offs_btn |-> <<TRUE, TRUE, TRUE, TRUE>>,
     step |-> <<1, 1, 1, 1>>, step_btn |-> <<TRUE, TRUE, TRUE, TRUE>>]

\* the controls at rest
QuietReports == {QuietReport}

Reports ==
    {QuietReport, [QuietReport EXCEPT !.seed = -1], [QuietReport EXCEPT !.step = <<-1, 0, 0, 0>>],
     BusyReport(FALSE), BusyReport(TRUE)}

\* a handler is due and interrupts are enabled: it runs before the main loop goes on
Preempted == ~primask /\ (pending.rst \/ pending.clk \/ pending.ext1 \/ pending.ext2)

\* an access of the main loop to a flag cell, with the guard it holds
MainAccess(cell, kind, via) ==
    [who |-> "main", cell |-> cell, kind |-> kind, via |-> via,
     masked |-> primask, held |-> main.guard]

\* an access of an interrupt handler to a flag cell, through the guard it gets in free
IsrAccess(cell) ==
    [who |-> "isr", cell |-> cell, kind |-> "write", via |-> "guard",
     masked |-> TRUE, held |-> main.guard]

\* the top of the loop body: clock.now(), State::update_time, the four Lfo::tick
MainTop(max) ==
    /\ main.pc = "top" /\ state.panic = "none" /\ ~Preempted
    /\ clock < max
    /\ clock' = clock + 1
    /\ LET st == update_time(state, clock')
       IN  /\ state' = IF st.panic # "none" THEN st
                       ELSE [st EXCEPT !.lfo = [i \in Tracks |-> [st.lfo[i] EXCEPT !.next = -1]]]
           /\ main' = [main EXCEPT !.pc = "dirty_clk", !.now = clock',
                                   !.any_lfo_upd = \E i \in Tracks : st.lfo[i].next # -1,
                                   !.io_ext_change = FALSE,
                                   !.took_rst = FALSE, !.took_clk = FALSE, !.had_last = FALSE,
                                   !.pushed = 0]
    /\ UNCHANGED <<build, pc, opers, handled, gateVars, enc, knob, lockVars>>
    /\ UNCHANGED <<primask, clk_flags, io_ext_flags, pending, hist>>
    /\ access' = NoAccess

\* the "dirty" read of clk_flags
MainDirtyClk ==
    /\ main.pc = "dirty_clk" /\ state.panic = "none" /\ ~Preempted
    /\ main' = [main EXCEPT !.pc = "dirty_ext",
                            !.clk_change = clk_flags.rst \/ clk_flags.clk # -1]
    /\ access' = MainAccess("clk_flags", "read", "read")
    /\ UNCHANGED <<seqVars, gateVars, enc, knob, lockVars>>
    /\ UNCHANGED <<primask, clk_flags, io_ext_flags, pending, hist>>

\* never entering the critical section
AfterDirtyNoFree(any) == "inputs"

\* skipping the critical section: the flags drained with interrupts enabled
AfterDirtySkipsFree(any) == IF any THEN "clk_get" ELSE "inputs"

\* where the loop goes after the dirty reads: into interrupt::free if anything is to do
AfterDirty(any) == IF any THEN "free" ELSE "inputs"

\* the "dirty" read of io_ext_flags, whether the display is due, and the decision
MainDirtyExt ==
    /\ main.pc = "dirty_ext" /\ state.panic = "none" /\ ~Preempted
    /\ \E display_update \in BOOLEAN :
          LET change == io_ext_flags.f1 \/ io_ext_flags.f2
          IN  main' = [main EXCEPT
                          !.io_ext_flags_change = change,
                          !.pc = AfterDirty(main.any_lfo_upd \/ main.clk_change
                                            \/ change \/ display_update)]
    /\ access' = MainAccess("io_ext_flags", "read", "read")
    /\ UNCHANGED <<seqVars, gateVars, enc, knob, lockVars>>
    /\ UNCHANGED <<primask, clk_flags, io_ext_flags, pending, hist>>

\* cortex_m::interrupt::free begins
MainFree ==
    /\ main.pc = "free" /\ state.panic = "none" /\ ~Preempted
    /\ primask' = TRUE
    /\ main' = [main EXCEPT !.pc = "clk_get"]
    /\ UNCHANGED <<seqVars, gateVars, enc, knob, lockVars>>
    /\ UNCHANGED <<clk_flags, io_ext_flags, pending, hist>>
    /\ access' = NoAccess

\* let mut flags = clk_flags.get(cs)
MainClkGet ==
    /\ main.pc = "clk_get" /\ state.panic = "none" /\ ~Preempted
    /\ main' = [main EXCEPT !.pc = "clk_rst", !.guard = "clk_flags"]
    /\ UNCHANGED <<seqVars, gateVars, enc, knob, lockVars>>
    /\ UNCHANGED <<primask, clk_flags, io_ext_flags, pending, hist>>
    /\ access' = NoAccess

\* if flags.0 { opers.push(Oper::Reset); flags.0 = false; }
MainClkRst ==
    /\ main.pc = "clk_rst" /\ state.panic = "none" /\ ~Preempted
    /\ IF clk_flags.rst
       THEN /\ IF PushPanics(opers, <<Oper("Reset", 0, 0)>>)
               THEN state' = Panic(state, "capacity") /\ UNCHANGED opers
               ELSE opers' = Append(opers, Oper("Reset", 0, 0)) /\ state' = state
            /\ clk_flags' = [clk_flags EXCEPT !.rst = FALSE]
            /\ access' = MainAccess("clk_flags", "write", "guard")
       ELSE /\ access' = MainAccess("clk_flags", "read", "guard")
            /\ UNCHANGED <<opers, state, clk_flags>>
    /\ main' = [main EXCEPT !.pc = "clk_take", !.took_rst = clk_flags.rst,
                            !.pushed = @ + (IF clk_flags.rst THEN 1 ELSE 0)]
    /\ UNCHANGED <<build, clock, pc, handled, gateVars, enc, knob, lockVars>>
    /\ UNCHANGED <<primask, io_ext_flags, pending, hist>>

\* a Tick for every clock edge, the first one included
TickDueAlways(cycle_count, clk_last) == cycle_count # -1

\* a clock edge was flagged and an earlier one was taken before it:
\* if let Some(cycle_count) = flags.1.take() { if let Some(last) = clk_last { ... } }
TickDue(cycle_count, clk_last) == cycle_count # -1 /\ clk_last # -1

\* if let Some(cycle_count) = flags.1.take() { ... }, and the guard goes out of scope
MainClkTake ==
    /\ main.pc = "clk_take" /\ state.panic = "none" /\ ~Preempted
    /\ LET tick == Oper("Tick", 0, clk_flags.clk - main.clk_last)
           push == TickDue(clk_flags.clk, main.clk_last)
       IN  /\ IF push /\ PushPanics(opers, <<tick>>)
              THEN state' = Panic(state, "capacity") /\ UNCHANGED opers
              ELSE opers' = opers \o Opt(push, tick) /\ state' = state
           /\ main' = [main EXCEPT
                           !.pc = "ext_get", !.guard = "none",
                           !.pushed = @ + (IF push THEN 1 ELSE 0),
                           !.took_clk = clk_flags.clk # -1,
                           !.had_last = main.clk_last # -1,
                           !.clk_last = IF clk_flags.clk # -1 THEN main.now ELSE @]
    /\ clk_flags' = [clk_flags EXCEPT !.clk = -1]
    /\ access' = MainAccess("clk_flags", "write", "guard")
    /\ UNCHANGED <<build, clock, pc, handled, gateVars, enc, knob, lockVars>>
    /\ UNCHANGED <<primask, io_ext_flags, pending, hist>>

\* let mut flags = io_ext_flags.get(cs)
MainExtGet ==
    /\ main.pc = "ext_get" /\ state.panic = "none" /\ ~Preempted
    /\ main' = [main EXCEPT !.pc = "ext_read", !.guard = "io_ext_flags"]
    /\ UNCHANGED <<seqVars, gateVars, enc, knob, lockVars>>
    /\ UNCHANGED <<primask, clk_flags, io_ext_flags, pending, hist>>
    /\ access' = NoAccess

\* both flags of io_ext_flags cleared, each expander that fired read and compared
\* with its last reading; the guard goes out of scope
MainExtRead ==
    /\ main.pc = "ext_read" /\ state.panic = "none" /\ ~Preempted
    /\ \E changed \in BOOLEAN :
          main' = [main EXCEPT
                      !.pc = "free_end", !.guard = "none",
                      !.io_ext_change = (io_ext_flags.f1 \/ io_ext_flags.f2) /\ changed]
    /\ io_ext_flags' = [f1 |-> FALSE, f2 |-> FALSE]
    /\ access' = MainAccess("io_ext_flags",
                            IF io_ext_flags.f1 \/ io_ext_flags.f2 THEN "write" ELSE "read", "guard")
    /\ UNCHANGED <<seqVars, gateVars, enc, knob, lockVars>>
    /\ UNCHANGED <<primask, clk_flags, pending, hist>>

\* cortex_m::interrupt::free ends
MainFreeEnd ==
    /\ main.pc = "free_end" /\ state.panic = "none" /\ ~Preempted
    /\ primask' = FALSE
    /\ main' = [main EXCEPT !.pc = "inputs"]
    /\ UNCHANGED <<seqVars, gateVars, enc, knob, lockVars>>
    /\ UNCHANGED <<clk_flags, io_ext_flags, pending, hist>>
    /\ access' = NoAccess

\* inputs.tick(now, &mut opers, io_ext_change), for a report of the set reports
MainInputs(reports) ==
    /\ main.pc = "inputs" /\ state.panic = "none" /\ ~Preempted
    /\ \E r \in reports :
          LET pushed == InputsTick(-1, r, main.io_ext_change).pushed
          IN  /\ IF PushPanics(opers, pushed)
                 THEN state' = Panic(state, "capacity") /\ UNCHANGED opers
                 ELSE opers' = opers \o pushed /\ state' = state
              /\ main' = [main EXCEPT !.pc = "drain", !.pushed = @ + Len(pushed)]
    /\ UNCHANGED <<build, clock, pc, handled, gateVars, enc, knob, lockVars>>
    /\ UNCHANGED <<primask, clk_flags, io_ext_flags, pending, hist>>
    /\ access' = NoAccess

\* all but the last operation drained
DrainLenButLast(todo) == Len(todo) - 1

\* let len = opers.len()
DrainLen(todo) == Len(todo)

\* if len > 0 { state.update(now, opers.drain(0..len)); }
MainDrain ==
    /\ main.pc = "drain" /\ state.panic = "none" /\ ~Preempted
    /\ IF Len(opers) > 0
       THEN /\ \E rnd \in Draws :
                  state' = update(state, main.now, SubSeq(opers, 1, DrainLen(opers)), rnd)
            /\ opers' = SubSeq(opers, DrainLen(opers) + 1, Len(opers))
            /\ handled' = DrainLen(opers)
       ELSE UNCHANGED <<state, opers, handled>>
    /\ main' = [main EXCEPT !.pc = "top", !.any_lfo_upd = FALSE, !.clk_change = FALSE,
                            !.io_ext_flags_change = FALSE, !.io_ext_change = FALSE,
                            !.took_rst = FALSE, !.took_clk = FALSE, !.had_last = FALSE]
    /\ UNCHANGED <<build, clock, pc, gateVars, enc, knob, lockVars>>
    /\ UNCHANGED <<primask, clk_flags, io_ext_flags, pending, hist>>
    /\ access' = NoAccess

\* a falling edge of the reset input or of the clock input sets the status bit of its pin
EdgeReset ==
    /\ ~pending.rst
    /\ pending' = [pending EXCEPT !.rst = TRUE]
    /\ UNCHANGED <<seqVars, gateVars, enc, knob, lockVars>>
    /\ UNCHANGED <<primask, clk_flags, io_ext_flags, main, hist>>
    /\ access' = NoAccess

EdgeClock ==
    /\ ~pending.clk
    /\ pending' = [pending EXCEPT !.clk = TRUE]
    /\ UNCHANGED <<seqVars, gateVars, enc, knob, lockVars>>
    /\ UNCHANGED <<primask, clk_flags, io_ext_flags, main, hist>>
    /\ access' = NoAccess

\* a falling edge of the clock input, counted
EdgeClockCounted ==
    /\ hist.edges < MaxEdges
    /\ pending' = [pending EXCEPT !.clk = TRUE]
    /\ hist' = [hist EXCEPT !.edges = @ + 1,
                            !.overrun = @ \/ pending.clk \/ clk_flags.clk # -1]
    /\ UNCHANGED <<seqVars, gateVars, enc, knob, lockVars>>
    /\ UNCHANGED <<primask, clk_flags, io_ext_flags, main>>
    /\ access' = NoAccess

\* an expander raises its interrupt line
EdgeIoExt ==
    /\ \E e \in {"ext1", "ext2"} : ~pending[e] /\ pending' = [pending EXCEPT ![e] = TRUE]
    /\ UNCHANGED <<seqVars, gateVars, enc, knob, lockVars>>
    /\ UNCHANGED <<primask, clk_flags, io_ext_flags, main, hist>>
    /\ access' = NoAccess

\* the handler GPIO1_Combined_16_31 of the reset and clock pins
IsrClock ==
    /\ ~primask
    /\ pending.rst \/ pending.clk
    /\ pending' = [pending EXCEPT !.rst = FALSE, !.clk = FALSE]
    /\ clk_flags' = [rst |-> clk_flags.rst \/ pending.rst,
                     clk |-> IF pending.clk THEN clock ELSE clk_flags.clk]
    /\ access' = IsrAccess("clk_flags")
    /\ UNCHANGED <<seqVars, gateVars, enc, knob, lockVars>>
    /\ UNCHANGED <<primask, io_ext_flags, main, hist>>

\* the handler GPIO2_Combined_16_31 of the two expander pins
IsrIoExt ==
    /\ ~primask
    /\ pending.ext1 \/ pending.ext2
    /\ pending' = [pending EXCEPT !.ext1 = FALSE, !.ext2 = FALSE]
    /\ io_ext_flags' = [f1 |-> io_ext_flags.f1 \/ pending.ext1,
                        f2 |-> io_ext_flags.f2 \/ pending.ext2]
    /\ access' = IsrAccess("io_ext_flags")
    /\ UNCHANGED <<seqVars, gateVars, enc, knob, lockVars>>
    /\ UNCHANGED <<primask, clk_flags, main, hist>>

\* the steps of the loop body up to Inputs::tick, and the one after it
MainSteps(max) ==
    \/ MainTop(max) \/ MainDirtyClk \/ MainDirtyExt \/ MainFree \/ MainClkGet \/ MainClkRst
    \/ MainClkTake \/ MainExtGet \/ MainExtRead \/ MainFreeEnd \/ MainDrain

\* every interleaving of the handlers with the loop, while the controls are at rest
NextIrq ==
    \/ MainSteps(MaxClockIrq) \/ MainInputs(QuietReports)
    \/ EdgeReset \/ EdgeClock \/ EdgeIoExt \/ IsrClock \/ IsrIoExt

\* nothing in these runs overflows, so one build stands for both
InitIrqLoop ==
    /\ InitState({Params(0, 16, <<4, 3, 2, 5>>, <<0, 3, 1, 2>>)})
    /\ build = "debug"

SpecIrq == InitIrqLoop /\ [][NextIrq]_vars

\* the loop with only the clock input alive, its edges counted
NextClock == MainSteps(MaxClockClock) \/ MainInputs(QuietReports) \/ EdgeClockCounted \/ IsrClock

SpecClock == InitIrqLoop /\ [][NextClock]_vars

\* the loop with the controls in use, the edges arriving between two passes
NextQueue ==
    \/ MainSteps(MaxClockQueue) \/ MainInputs(Reports)
    \/ (main.pc = "top" /\ EdgeReset) \/ (main.pc = "top" /\ EdgeClock)
    \/ (main.pc = "top" /\ EdgeIoExt) \/ IsrClock \/ IsrIoExt

SpecQueue == InitIrqLoop /\ [][NextQueue]_vars

\* the handler of the reset and clock pins, with the order of its captures noted:
\* "clk_first" when it captures a reset while the timestamp of a clock edge, captured
\* by an earlier run, is waiting and no reset is
IsrClockOrdered ==
    /\ ~primask
    /\ pending.rst \/ pending.clk
    /\ pending' = [pending EXCEPT !.rst = FALSE, !.clk = FALSE]
    /\ clk_flags' = [rst |-> clk_flags.rst \/ pending.rst,
                     clk |-> IF pending.clk THEN clock ELSE clk_flags.clk]
    /\ access' = IsrAccess("clk_flags")
    /\ hist' = [hist EXCEPT !.order =
                    IF pending.clk THEN "other"
                    ELSE IF clk_flags.rst THEN @
                    ELSE IF clk_flags.clk # -1 THEN "clk_first" ELSE "other"]
    /\ UNCHANGED <<seqVars, gateVars, enc, knob, lockVars>>
    /\ UNCHANGED <<primask, io_ext_flags, main>>

NextOrder ==
    \/ MainSteps(MaxClockOrder) \/ MainInputs(QuietReports)
    \/ EdgeReset \/ EdgeClock \/ IsrClockOrdered

SpecOrder == InitIrqLoop /\ [][NextOrder]_vars

\* the top of the loop body of a loop that never ends: the cycle counter wraps
MainTopWrap ==
    /\ main.pc = "top" /\ state.panic = "none" /\ ~Preempted
    /\ clock' = (clock + 1) % ClockWrap
    /\ LET st == update_time(state, clock')
       IN  /\ state' = IF st.panic # "none" THEN st
                       ELSE [st EXCEPT !.lfo = [i \in Tracks |-> [st.lfo[i] EXCEPT !.next = -1]]]
           /\ main' = [main EXCEPT !.pc = "dirty_clk", !.now = clock',
                                   !.any_lfo_upd = \E i \in Tracks : st.lfo[i].next # -1,
                                   !.io_ext_change = FALSE,
                                   !.took_rst = FALSE, !.took_clk = FALSE, !.had_last = FALSE,
                                   !.pushed = 0]
    /\ UNCHANGED <<build, pc, opers, handled, gateVars, enc, knob, lockVars>>
    /\ UNCHANGED <<primask, clk_flags, io_ext_flags, pending, hist>>
    /\ access' = NoAccess

\* the loop body, pass after pass
MainLoop ==
    \/ MainTopWrap \/ MainDirtyClk \/ MainDirtyExt \/ MainFree \/ MainClkGet \/ MainClkRst
    \/ MainClkTake \/ MainExtGet \/ MainExtRead \/ MainFreeEnd \/ MainInputs(QuietReports)
    \/ MainDrain

\* an edge of any of the four interrupt pins, counted
EdgeAny ==
    /\ hist.edges < MaxLiveEdges
    /\ \E e \in {"rst", "clk", "ext1", "ext2"} : pending' = [pending EXCEPT ![e] = TRUE]
    /\ hist' = [hist EXCEPT !.edges = @ + 1]
    /\ UNCHANGED <<seqVars, gateVars, enc, knob, lockVars>>
    /\ UNCHANGED <<primask, clk_flags, io_ext_flags, main>>
    /\ access' = NoAccess

NextLive == MainLoop \/ EdgeAny \/ IsrClock \/ IsrIoExt

\* the main loop keeps iterating, and the hardware runs a handler that is due as
\* soon as interrupts are enabled
SpecLive ==
    /\ InitIrqLoop /\ [][NextLive]_vars
    /\ WF_vars(MainLoop) /\ WF_vars(IsrClock) /\ WF_vars(IsrIoExt)

----------------------------------------------------------------------------
(* The timed driver: a pass of the main loop without its interrupts.  It   *)
(* reads the clock, calls State::update_time and queues a batch            *)
(* (PollTimed), then hands the batch to State::update (UpdateTimed).  A    *)
(* batch holds at most one operation of the user, so whether State::update *)
(* acts on it is decided by the state the call starts from.                *)

\* State::update acts on the operation o in the state st: a Seed or Length turn
\* that leaves the range is dropped, the clock and the reset input are not the user
ActedOn(st, o) ==
    CASE o.op = "Seed" ->
            \/ st.input_mode = Fate
            \/ (st.params.seed - SEED_BASE + o.x >= 0 /\ st.params.seed - SEED_BASE + o.x <= 9999)
      [] o.op = "Length" ->
            LET n == AddI8(WrapI8(st.params.pattern_length), o.x) IN n >= 2 /\ n <= 64
      [] o.op \in {"Tick", "Reset"} -> FALSE
      [] OTHER -> TRUE

\* the history after the operation o of a call at the time now
HistOper(h, st, now, o) ==
    CASE o.op = "Reset" -> [h EXCEPT !.armed = TRUE, !.since = -1]
      [] o.op = "Tick" ->
            [h EXCEPT !.armed = FALSE,
                      !.since = IF h.armed THEN 0 ELSE IF h.since = -1 THEN -1 ELSE h.since + 1]
      [] OTHER -> IF ActedOn(st, o) THEN [h EXCEPT !.acted = now] ELSE h

RECURSIVE HistOpers(_, _, _, _)
HistOpers(h, st, now, todo) ==
    IF todo = <<>> THEN h
    ELSE HistOpers(HistOper(h, st, now, Head(todo)), st, now, Tail(todo))

PollTimed(batches, steps, max) ==
    /\ pc = "poll"
    /\ state.panic = "none"
    /\ hist.passes < max
    /\ \E dt \in steps : clock' = clock + dt
    /\ state' = update_time(state, clock')
    /\ opers' \in batches
    /\ pc' = "update"
    /\ hist' = [hist EXCEPT !.passes = @ + 1]
    /\ UNCHANGED <<build, handled, gateVars, enc, knob, lockVars>>
    /\ UNCHANGED <<primask, clk_flags, io_ext_flags, pending, main, access>>

UpdateTimed ==
    /\ pc = "update"
    /\ IF Len(opers) > 0 /\ state.panic = "none"
       THEN /\ \E rnd \in Draws : state' = update(state, clock, opers, rnd)
            /\ handled' = Len(opers)
       ELSE UNCHANGED <<state, handled>>
    /\ hist' = HistOpers(hist, state, clock, opers)
    /\ opers' = <<>>
    /\ pc' = "poll"
    /\ UNCHANGED <<build, clock, gateVars, enc, knob, lockVars>>
    /\ UNCHANGED <<primask, clk_flags, io_ext_flags, pending, main, access>>

\* the operations of the user the idle timeout is about
TimeOpers ==
    {Oper("SeedClick", 0, 0), Oper("Seed", 0, 1), Oper("Length", 0, 1),
     Oper("OffsetClick", 0, 0), Oper("Offset", 0, 1),
     Oper("StepsClick", 0, 0), Oper("Steps", 0, 1)}

TimeBatches ==
    {<<>>, <<Oper("Tick", 0, 2)>>, <<Oper("Reset", 0, 0)>>}
    \cup {<<o>> : o \in TimeOpers}
    \cup {<<Oper("Tick", 0, 2), Oper("Seed", 0, 1)>>}

PollTime == PollTimed(TimeBatches, TimeSteps, MaxPasses)

InitTime == InitState({Params(9999, 64, <<4, 3, 2, 5>>, <<0, 3, 1, 2>>)}) /\ build = "debug"

NextTime == PollTime \/ UpdateTimed

SpecTime == InitTime /\ [][NextTime]_vars

\* the clock and the reset input alone, one count per pass
PollReset == PollTimed(TickBatches, {1}, MaxPassesReset)

NextReset == PollReset \/ UpdateTimed

SpecReset == InitTick /\ [][NextReset]_vars

\* the clock input and the passing of time: passes with and without a Tick
PhaseBatches == {<<>>, <<Oper("Reset", 0, 0)>>} \cup {<<Oper("Tick", 0, i)>> : i \in Intervals}

PollPhase == PollTimed(PhaseBatches, {1, 2}, MaxPassesPhase)

NextPhase == PollPhase \/ UpdateTimed

SpecPhase == InitTick /\ [][NextPhase]_vars

----------------------------------------------------------------------------
(* The Lfo driver: the calls of the Lfo of track 1 in any order            *)

LfoOffsets == {ZeroU32, U32(536870912, 0), U32(1073741824, 0)}

LfoDeltas == {-1, 1}

LfoSeeds == {<<0, 2>>, <<1, 4>>}

\* the Lfo with nothing pending: what a call leaves pending in it, the call has made
\* pending
NonePending(l) == [l EXCEPT !.next = -1]

\* a call on the Lfo that leaves l2, and leaves probe when nothing was pending before
\* it; rise tells that it is set_gate_high(true) with the gate low
LfoCall(name, l2, probe, panics, rise) ==
    /\ pc = "poll"
    /\ state.panic = "none"
    /\ clock < MaxLfoCalls
    /\ clock' = clock + 1
    /\ IF panics
       THEN /\ state' = Panic(state, "assertion failed")
            /\ hist' = hist
       ELSE LET did == probe.next # -1
                h   == hist.lfo
            IN  /\ state' = [state EXCEPT !.lfo[0] = l2]
                /\ hist' = [hist EXCEPT !.lfo =
                       [h EXCEPT !.call = name, !.did = did,
                                 !.sample = IF ModeOutputPanics(l2) THEN -1 ELSE ModeOutput(l2),
                                 !.prior = h.made,
                                 !.made = IF did THEN probe.next ELSE h.made,
                                 !.made_n = IF did THEN h.made_n + 1 ELSE h.made_n,
                                 !.rnd_n = IF did /\ l2.mode = 0 THEN h.rnd_n + 1 ELSE h.rnd_n,
                                 !.rises = IF rise /\ l2.mode = 0 THEN h.rises + 1 ELSE h.rises]]
    /\ UNCHANGED <<build, pc, opers, handled, gateVars, enc, knob, lockVars>>
    /\ UNCHANGED <<primask, clk_flags, io_ext_flags, pending, main, access>>

LfoSetOffset ==
    \E o \in LfoOffsets :
        LET l == state.lfo[0]
        IN  LfoCall("set_offset", set_offset(l, o), set_offset(NonePending(l), o),
                    LfoUpdatePanics([l EXCEPT !.offset = o], FALSE), FALSE)

LfoSetSeedLength ==
    \E sl \in LfoSeeds :
        LET l == state.lfo[0]
        IN  LfoCall("set_seed_length", set_seed_length(l, sl[1], sl[2]),
                    set_seed_length(NonePending(l), sl[1], sl[2]),
                    LfoUpdatePanics([l EXCEPT !.length = sl[2], !.rnd = sl[1]], FALSE), FALSE)

LfoSetMode ==
    \E d \in LfoDeltas :
        LET l == state.lfo[0]
            wrap == build = "release"
        IN  LfoCall("set_mode", set_mode(l, d, wrap), set_mode(NonePending(l), d, wrap),
                    \/ SetModePanics(l, d, wrap)
                    \/ LfoUpdatePanics([l EXCEPT !.mode = SetModeN(l, d, wrap) % ModeLen], FALSE),
                    FALSE)

LfoSetGateHigh ==
    \E high \in BOOLEAN :
        LET l == state.lfo[0]
        IN  LfoCall(IF high THEN "set_gate_high(true)" ELSE "set_gate_high(false)",
                    set_gate_high(l, high), set_gate_high(NonePending(l), high),
                    l.gate_high # high /\ LfoUpdatePanics(l, ~l.gate_high /\ high),
                    ~l.gate_high /\ high)

LfoTick ==
    /\ pc = "poll"
    /\ state.panic = "none"
    /\ clock < MaxLfoCalls
    /\ clock' = clock + 1
    /\ state' = [state EXCEPT !.lfo[0] = LfoTake(state.lfo[0]).lfo]
    /\ hist' = [hist EXCEPT !.lfo.call = "tick",
                            !.lfo.out_n = IF LfoTake(state.lfo[0]).out # -1 THEN @ + 1 ELSE @]
    /\ UNCHANGED <<build, pc, opers, handled, gateVars, enc, knob, lockVars>>
    /\ UNCHANGED <<primask, clk_flags, io_ext_flags, pending, main, access>>

NextLfo == LfoSetOffset \/ LfoSetSeedLength \/ LfoSetMode \/ LfoSetGateHigh \/ LfoTick

SpecLfo == InitTime /\ [][NextLfo]_vars

----------------------------------------------------------------------------
(* The Fate driver: a click into Fate mode, then Seed turns whose draws    *)
(* sit at the ends and the middle of the 32-bit range                      *)

\* the draws that pick a branch: u32::MAX / 2 - 1 and u32::MAX / 2
FateChoices == {U32(1073741823, 0), U32(1073741823, 1)}

\* the draws that are scaled: 0, u32::MAX / 2, 16 * (u32::MAX / 16) - 1 and u32::MAX
FateValues == {ZeroU32, U32(1073741823, 1), U32(2147483639, 1), U32(I32_MAX, 1)}

\* every track draws the same six values, then the seed is drawn
FateStreams ==
    {[k \in 0 .. (6 * TRACK_COUNT) |->
        IF k = 6 * TRACK_COUNT THEN sd
        ELSE CASE k % 6 = 0 -> xl [] k % 6 = 1 -> yl [] k % 6 = 2 -> xs
               [] k % 6 = 3 -> ys [] k % 6 = 4 -> xo [] OTHER -> yo] :
        xl \in FateChoices, yl \in FateValues, xs \in FateChoices, ys \in FateValues,
        xo \in FateChoices, yo \in FateValues, sd \in FateValues}

FateBatches == {<<Oper("SeedClick", 0, 0)>>, <<Oper("Seed", 0, 1)>>}

PollFate == Poll(FateBatches, MaxClockFate)

UpdateFate ==
    /\ pc = "update"
    /\ \E rnd \in FateStreams : state' = update(state, clock, opers, rnd)
    /\ opers' = <<>>
    /\ handled' = Len(opers)
    /\ pc' = "poll"
    /\ UNCHANGED <<build, clock, gate, gate_in, outputs, enc, newVars>>

NextFate == PollFate \/ UpdateFate

SpecFate == InitTick /\ [][NextFate]_vars

----------------------------------------------------------------------------
(* The batch driver: passes that hand State::update several operations on  *)
(* the parameters at once, after clicks into the modes that change what    *)
(* Seed, Offset and Steps do                                               *)

MixBatches ==
    {<<Oper("SeedClick", 0, 0)>>, <<Oper("OffsetClick", 1, 0)>>, <<Oper("StepsClick", 0, 0)>>,
     <<Oper("Seed", 0, -1)>>, <<Oper("Steps", 0, 3)>>,
     <<Oper("Seed", 0, 1), Oper("Steps", 0, 3)>>,
     <<Oper("Seed", 0, 1), Oper("Length", 0, 1), Oper("Offset", 1, 1), Oper("Steps", 0, 1)>>,
     <<Oper("Length", 0, -1), Oper("Steps", 1, -1), Oper("Offset", 0, -1), Oper("Seed", 0, 1)>>}

PollMix == Poll(MixBatches, MaxClockMix)

NextMix == PollMix \/ Update

SpecMix == InitTick /\ [][NextMix]_vars

----------------------------------------------------------------------------
(* The click driver: one button click per pass, or a Length or Steps turn  *)
(* that leaves the modes of the buttons                                    *)

ClickBatches ==
    {<<Oper("SeedClick", 0, 0)>>, <<Oper("Length", 0, 1)>>, <<Oper("Steps", 1, 1)>>}
    \cup {<<Oper(op, tr, 0)>> : op \in {"OffsetClick", "StepsClick"}, tr \in {0, 1, 3}}

PollClick == Poll(ClickBatches, MaxClockClick)

NextClick == PollClick \/ Update

SpecClick == InitTick /\ [][NextClick]_vars

----------------------------------------------------------------------------
(* The pass driver: a pass of the main loop with its bus transactions and  *)
(* its outputs, without the interrupts.  PassTop is the loop body down to  *)
(* the Lfo ticks, PassSection the critical section and Inputs::tick,       *)
(* PassRest the State::update and the Outputs::tick.  The mutes that       *)
(* Outputs::tick reads (state.mute) are an input of the pass.              *)

Mutes == {[i \in Tracks |-> FALSE], [i \in Tracks |-> i = 1]}

PassTop(max) ==
    /\ pc = "poll"
    /\ state.panic = "none"
    /\ hist.passes < max
    /\ clock' = clock + 1
    /\ LET st == update_time(state, clock')
       IN  /\ state' = IF st.panic # "none" THEN st
                       ELSE [st EXCEPT !.lfo = [i \in Tracks |-> [st.lfo[i] EXCEPT !.next = -1]]]
           /\ main' = [main EXCEPT !.now = clock',
                                   !.any_lfo_upd = \E i \in Tracks : st.lfo[i].next # -1]
    /\ pc' = "section"
    /\ hist' = [hist EXCEPT !.passes = @ + 1, !.bus = NoBusError]
    /\ UNCHANGED <<build, opers, handled, gateVars, enc, knob, lockVars>>
    /\ UNCHANGED <<primask, clk_flags, io_ext_flags, pending, access>>

\* the bus transactions of interrupt::free: a failed DAC write is logged, a failed
\* expander read and a failed display write are unwrapped; then Inputs::tick
PassSection(batches, faults) ==
    /\ pc = "section"
    /\ state.panic = "none"
    /\ \E fired \in BOOLEAN, display_update \in BOOLEAN, f \in faults :
          LET entered == main.any_lfo_upd \/ fired \/ display_update
              dac == entered /\ main.any_lfo_upd /\ f.dac
              ext == entered /\ fired /\ f.ext
              seg == entered /\ ~ext /\ display_update /\ f.seg
          IN  /\ f = [dac |-> dac, ext |-> ext, seg |-> seg]
              /\ hist' = [hist EXCEPT !.bus = f]
              /\ IF ext \/ seg
                 THEN /\ state' = Panic(state, "unwrap")
                      /\ UNCHANGED <<opers, pc>>
                 ELSE /\ state' = state
                      /\ opers' \in batches
                      /\ pc' = "update"
    /\ UNCHANGED <<build, clock, handled, gateVars, enc, knob, lockVars>>
    /\ UNCHANGED <<primask, clk_flags, io_ext_flags, pending, main, access>>

\* State::update if anything is queued, then Outputs::tick
PassRest ==
    /\ pc = "update"
    /\ state.panic = "none"
    /\ \E rnd \in Draws, mute \in Mutes :
          LET st == IF Len(opers) > 0 THEN update(state, clock, opers, rnd) ELSE state
          IN  /\ state' = st
              /\ outputs' = IF st.panic # "none" THEN outputs
                            ELSE OutputsTick(outputs, clock, st, mute)
    /\ handled' = IF Len(opers) > 0 THEN Len(opers) ELSE handled
    /\ hist' = HistOpers(hist, state, clock, opers)
    /\ opers' = <<>>
    /\ pc' = "poll"
    /\ UNCHANGED <<build, clock, gate, gate_in, enc, knob, lockVars>>
    /\ UNCHANGED <<primask, clk_flags, io_ext_flags, pending, main, access>>

\* the failures a bus may show
BusFaults == [dac : BOOLEAN, ext : BOOLEAN, seg : BOOLEAN]

BusBatches ==
    {<<>>, <<Oper("Tick", 0, 2)>>, <<Oper("Reset", 0, 0)>>, <<Oper("Offset", 0, 2)>>,
     <<Oper("OffsetClick", 0, 0)>>}

PassSectionBus == PassSection(BusBatches, BusFaults)

NextBus == PassTop(MaxPassesBus) \/ PassSectionBus \/ PassRest

SpecBus == InitTime /\ [][NextBus]_vars

\* the clock and the reset input with sound buses: the gates of the tracks
OutBatches ==
    {<<>>, <<Oper("Tick", 0, 2)>>, <<Oper("Reset", 0, 0)>>,
     <<Oper("Reset", 0, 0), Oper("Tick", 0, 2)>>}

SoundBuses == {NoBusError}

PassSectionOut == PassSection(OutBatches, SoundBuses)

NextOut == PassTop(MaxPassesOut) \/ PassSectionOut \/ PassRest

SpecOut == InitTick /\ [][NextOut]_vars

\* the clock, the reset input and the controls: what the gates get in a pass
\* without a Tick
RetainBatches ==
    {<<>>, <<Oper("Tick", 0, 2)>>, <<Oper("Reset", 0, 0)>>,
     <<Oper("Seed", 0, 1)>>, <<Oper("Length", 0, 1)>>, <<Oper("Length", 0, -1)>>,
     <<Oper("Steps", 0, 1)>>, <<Oper("Offset", 1, 1)>>, <<Oper("OffsetClick", 0, 0)>>}

PassSectionRetain == PassSection(RetainBatches, SoundBuses)

InitRetain == InitState({Params(0, 3, <<2, 5, 3, 4>>, <<0, 0, 0, 0>>)}) /\ build = "debug"

NextRetain == PassTop(MaxPassesRetain) \/ PassSectionRetain \/ PassRest

SpecRetain == InitRetain /\ [][NextRetain]_vars

----------------------------------------------------------------------------
(* The capture queues of the expander interrupt (irq.rs).  The locked pair *)
(* of queues is the value of the first Lock of mem; the handler gets it    *)
(* through the guard.  A reading is the inverted 16 bits of an expander;   *)
(* the driver lets it differ from 0 only in the last captures before a     *)
(* queue is full.                                                          *)

\* IoExtReads = ArrayVec<u16, 64>
IOEXT_READS_CAP == 64

\* ArrayVec::push on the capture queue q: aborts when q is full
CapturePush(c, v) ==
    IF c.panic \/ Len(c.q) >= IOEXT_READS_CAP THEN [c EXCEPT !.panic = TRUE]
    ELSE [c EXCEPT !.q = Append(c.q, v)]

\* the block of the handler for one expander: x is read_int_cap, y is read_inputs
CapturePin(q, fired, x, y) ==
    LET c0 == [q |-> q, panic |-> FALSE]
        did_change == IF q = <<>> THEN TRUE ELSE q[Len(q)] = x
        c1 == IF did_change THEN CapturePush(c0, x) ELSE c0
        c2 == IF y # x THEN CapturePush(c1, y) ELSE c1
    IN  IF fired THEN c2 ELSE c0

\* the readings an expander may give when its queue is q
Readings(q) == IF Len(q) >= IOEXT_READS_CAP - MaxTail THEN {0, 1} ELSE {0}

\* setup_gpio_interrupts: the lock of the two empty queues is handed to the handler
CaptureSetup ==
    /\ mem = MemNew
    /\ mem' = LockNew(MemNew, <<<<>>, <<>>>>)
    /\ lock_op' = LockOp("new", 1, <<>>)
    /\ UNCHANGED <<seqVars, gateVars, enc, knob, irqVars>>

\* the handler GPIO2_Combined_16_31 of irq.rs
IsrCapture ==
    /\ Len(mem.locks) = 1
    /\ state.panic = "none"
    /\ LET reads == LockRead(mem, 1)
       IN  \E f1 \in BOOLEAN, f2 \in BOOLEAN :
           \E x1 \in Readings(reads[1]), y1 \in Readings(reads[1]),
              x2 \in Readings(reads[2]), y2 \in Readings(reads[2]) :
              LET c1 == CapturePin(reads[1], f1, x1, y1)
                  c2 == CapturePin(reads[2], f2, x2, y2)
              IN  /\ f1 \/ f2
                  /\ (~f1) => (x1 = 0 /\ y1 = 0)
                  /\ (~f2) => (x2 = 0 /\ y2 = 0)
                  /\ lock_op' = LockOp("capture", 1, <<f1, x1, y1, f2, x2, y2>>)
                  /\ IF c1.panic
                     THEN state' = Panic(state, "capacity")
                          /\ mem' = GuardWrite(mem, 1, <<c1.q, reads[2]>>)
                     ELSE IF c2.panic
                     THEN state' = Panic(state, "capacity")
                          /\ mem' = GuardWrite(mem, 1, <<c1.q, c2.q>>)
                     ELSE state' = state /\ mem' = GuardWrite(mem, 1, <<c1.q, c2.q>>)
    /\ UNCHANGED <<build, clock, pc, opers, handled, gateVars, enc, knob, irqVars>>

NextCapture == CaptureSetup \/ IsrCapture

SpecCapture == InitEncoder /\ [][NextCapture]_vars

----------------------------------------------------------------------------
(* The decoder driver: one Inputs::tick per step, on an empty queue, for a *)
(* report of what each control gives in this pass                          *)

DeltaPatterns == {<<0, 0, 0, 0>>, <<0, 1, 0, 0>>, <<1, 1, 1, 1>>}

ButtonPatterns == {<<FALSE, FALSE, FALSE, FALSE>>, <<TRUE, TRUE, TRUE, TRUE>>}

GlobalPatterns ==
    {[QuietReport EXCEPT !.reset = a, !.clock = IF a THEN 1 ELSE -1, !.seed = IF b THEN 1 ELSE 0,
                         !.seed_btn = b, !.length = IF c THEN -1 ELSE 0, !.length_btn = c] :
        a \in BOOLEAN, b \in BOOLEAN, c \in BOOLEAN}

DecoderReports ==
    {[g EXCEPT !.offs = o, !.offs_btn = ob, !.step = st, !.step_btn = sb] :
        g \in GlobalPatterns, o \in DeltaPatterns, ob \in ButtonPatterns,
        st \in DeltaPatterns, sb \in ButtonPatterns}

DecoderStep ==
    /\ \E r \in DecoderReports, clock_last \in {-1, 0}, io_ext_change \in BOOLEAN :
          opers' = InputsTick(clock_last, r, io_ext_change).pushed
    /\ UNCHANGED <<build, clock, pc, state, handled, gateVars, enc, newVars>>

NextDecoder == DecoderStep

SpecDecoder == InitEncoder /\ [][NextDecoder]_vars

----------------------------------------------------------------------------
(* The Offset driver: one operation of the user per pass, and no Seed turn *)
(* in the Fate mode                                                        *)

OffsetParams ==
    {Params(0, 16, <<4, 3, 2, 5>>, <<0, 3, 1, 2>>), Params(0, 16, <<64, 3, 2, 5>>, <<64, 0, 2, 5>>)}

OffsetOpers == {o \in AllOpers : o.op \notin {"Tick", "Reset", "LengthClick"}}

PollOffset ==
    Poll({<<o>> : o \in {u \in OffsetOpers : u.op = "Seed" => state.input_mode # Fate}},
         MaxClockOffset)

InitOffset == InitState(OffsetParams) /\ build = "debug"

NextOffset == PollOffset \/ Update

SpecOffset == InitOffset /\ [][NextOffset]_vars


----------------------------------------------------------------------------
(* Properties *)

\* the single operation of a State::update call that is about to run
Applying(op) == pc = "update" /\ Len(opers) = 1 /\ opers[1].op = op

SeedOf(st) == st.params.seed - SEED_BASE

\* C1: a Seed(d) applied outside Fate mode leaves params.seed - SEED_BASE within
\* [0, 9999], and one whose result would fall outside leaves the whole state unchanged.
C1_SeedInRange ==
    [][(Applying("Seed") /\ state.input_mode # Fate) =>
          /\ SeedOf(state') >= 0 /\ SeedOf(state') <= 9999
          /\ state'.panic = "none"
          /\ (SeedOf(state) + opers[1].x < 0 \/ SeedOf(state) + opers[1].x > 9999) => state' = state
      ]_vars

\* C1 witness: an accepted Seed turn was followed by a rejected one at the upper end
C1_Witness ==
    /\ pc = "poll" /\ handled = 1
    /\ state.input_mode = SeedMode
    /\ state.last_action < clock
    /\ SeedOf(state) > 9900

\* C2: a Length(d) with any 8-bit d never aborts, leaves pattern_length within [2, 64],
\* and a rejected delta leaves pattern_length, the input mode and last_action unchanged.
C2_LengthInRange ==
    [][Applying("Length") =>
          /\ state'.panic = "none"
          /\ state'.params.pattern_length >= 2 /\ state'.params.pattern_length <= 64
          /\ (state.params.pattern_length + opers[1].x < 2 \/ state.params.pattern_length + opers[1].x > 64) =>
                /\ state'.params.pattern_length = state.params.pattern_length
                /\ state'.input_mode = state.input_mode
                /\ state'.last_action = state.last_action
      ]_vars

\* C3: after Steps operations of one detent, outside TrackSync mode, every track has
\* 2 <= length <= 64 and 0 <= steps <= length.
C3_StepsBounds ==
    \A tr \in Tracks :
        /\ state.params.tracks[tr].length >= 2 /\ state.params.tracks[tr].length <= 64
        /\ state.params.tracks[tr].steps >= 0
        /\ state.params.tracks[tr].steps <= state.params.tracks[tr].length

\* C3 witness: a Steps turn grew a track past 64 steps and was clamped
C3_Witness ==
    /\ pc = "poll" /\ handled = 1 /\ clock = 1
    /\ state.input_mode = Mode("Steps", 0)
    /\ state.params.tracks[0].length = 64 /\ state.params.tracks[0].steps = 0

\* the Steps(tr, -1) that is about to run finds track tr with no steps, outside TrackSync
WrapShrinkCase(tr) ==
    /\ Applying("Steps") /\ opers[1].tr = tr /\ opers[1].x = -1
    /\ state.input_mode # Mode("TrackSync", tr)
    /\ state.params.tracks[tr].steps = 0

\* C4 as claimed: for every length in [2, 64], Steps(tr, -1) at steps = 0 decrements
\* the length and sets steps to the new length.
C4_WrapShrinkAll ==
    [][\A tr \in Tracks : WrapShrinkCase(tr) =>
          /\ state'.params.tracks[tr].length = state.params.tracks[tr].length - 1
          /\ state'.params.tracks[tr].steps = state'.params.tracks[tr].length
      ]_vars

\* C4 as amended: for every length in [3, 64], Steps(tr, -1) at steps = 0 decrements
\* the length and sets steps to the new length; at length 2 the length stays 2 and
\* steps becomes 1; steps never becomes negative.
C4_WrapShrink ==
    [][\A tr \in Tracks : WrapShrinkCase(tr) =>
          /\ state.params.tracks[tr].length >= 3 =>
                /\ state'.params.tracks[tr].length = state.params.tracks[tr].length - 1
                /\ state'.params.tracks[tr].steps = state'.params.tracks[tr].length
          /\ state.params.tracks[tr].length = 2 =>
                /\ state'.params.tracks[tr].length = 2
                /\ state'.params.tracks[tr].steps = 1
          /\ state'.params.tracks[tr].steps >= 0
      ]_vars

\* C4 witness: the first turn shrank track 0 from length 5 with no steps to 4 of 4
C4_Witness ==
    /\ pc = "poll" /\ handled = 1 /\ clock = 1
    /\ state.input_mode = Mode("Steps", 0)
    /\ state.params.tracks[0].length = 4 /\ state.params.tracks[0].steps = 4
    /\ state.generated.params.tracks[0].length = 4

\* C5: once a Tick was applied, a track with policy Sync has its playhead at the raw
\* global playhead modulo min(pattern_length, its own length).
C5_SyncPlayhead ==
    (pc = "poll" /\ state.tick_count >= 1 /\ state.panic = "none") =>
        \A i \in Tracks : state.track_sync[i] = Sync =>
            state.track_playhead[i] =
                state.playhead % Min(state.params.pattern_length, state.params.tracks[i].length)

\* C6: once a Tick was applied, a track with policy Free has its playhead at the raw
\* global playhead modulo its own length.
C6_FreePlayhead ==
    (pc = "poll" /\ state.tick_count >= 1 /\ state.panic = "none") =>
        \A i \in Tracks : state.track_sync[i] = Free =>
            state.track_playhead[i] = state.playhead % state.params.tracks[i].length

\* C7: once a Tick was applied, a track with policy Loop has its playhead at
\* tick_count modulo its own length (tick_count counts the Ticks and nothing else,
\* so a Reset never moves it).
C7_LoopPlayhead ==
    (pc = "poll" /\ state.tick_count >= 1 /\ state.panic = "none") =>
        \A i \in Tracks : state.track_sync[i] = Loop =>
            state.track_playhead[i] = state.tick_count % state.params.tracks[i].length

\* C8: State::update with no operations leaves every field of the state unchanged.
C8_EmptyUpdate == [][(pc = "update" /\ opers = <<>>) => state' = state]_vars

\* C8 witness: an update with no operations ran after the user had left Run mode
C8_Witness ==
    /\ pc = "poll" /\ handled = 0
    /\ state.input_mode # Run
    /\ state.last_action < clock

\* C9: Set makes the gate high with clear time now + predicted * duty_percent / 100;
\* a Retain before the clear time leaves the gate high and the pin untouched; the
\* first Retain at or after it drives the pin inactive and makes the gate low; a
\* Retain with no clear pending changes nothing.
C9_GateDuty ==
    [][/\ gate_in'.set = "Set" =>
            /\ gate'.high /\ gate'.pin = FALSE
            /\ gate'.clear_at = clock' + (gate_in'.predicted * gate.duty_percent) \div 100
       /\ (gate_in'.set = "Retain" /\ gate.clear_at # -1 /\ clock' < gate.clear_at) =>
            /\ gate'.high = gate.high /\ gate.high
            /\ gate'.clear_at = gate.clear_at /\ gate'.pin = gate.pin /\ ~gate'.wrote
       /\ (gate_in'.set = "Retain" /\ gate.clear_at # -1 /\ clock' >= gate.clear_at) =>
            /\ ~gate'.high /\ gate'.pin = TRUE /\ gate'.wrote /\ gate'.clear_at = -1
       /\ (gate_in'.set = "Retain" /\ gate.clear_at = -1) =>
            /\ gate'.high = gate.high /\ gate'.pin = gate.pin /\ ~gate'.wrote
            /\ gate'.clear_at = -1
      ]_vars

\* C9 witness: a Retain at exactly the clear time of a Set has just cleared the gate
C9_Witness ==
    /\ gate_in.set = "Retain" /\ gate.wrote /\ ~gate.high /\ gate.pin = TRUE
    /\ gate.clear_at = -1 /\ clock = 2 /\ gate.duty_percent = 50

\* the documented value of a nibble (previous pair, current pair)
Documented(n) ==
    IF n % 4 = Clockwise(n \div 4) THEN 1
    ELSE IF n \div 4 = Clockwise(n % 4) THEN -1
    ELSE 0

\* C10: the decode table gives every nibble its documented value in {-1, 0, 1}:
\* +1 for the four clockwise transitions, -1 for their reverses, 0 otherwise, so
\* exactly 8 entries are non-zero; every tick looks its nibble up in it.
C10_Table ==
    /\ \A n \in 0 .. 15 : TABLE[n + 1] = Documented(n) /\ TABLE[n + 1] \in {-1, 0, 1}
    /\ Cardinality({n \in 0 .. 15 : TABLE[n + 1] # 0}) = 8
    /\ Cardinality({n \in 0 .. 15 : TABLE[n + 1] = 1}) = 4
    /\ {n \in 0 .. 15 : TABLE[n + 1] = 1} = {13, 4, 2, 11}
    /\ {n \in 0 .. 15 : TABLE[n + 1] = -1} = {7, 1, 8, 14}
    /\ enc.direction = Documented(enc.prev_next)

\* C10 witness: the tick sampled 01 after 11 and looked up +1
C10_Witness == enc.prev_next = 13 /\ enc.direction = 1

\* C11: while the shaft turns clockwise from 11 through 01, 00, 10 and back, with any
\* repeated samples in between, the ticks return +1 once per four transitions (at the
\* second, sixth, tenth ... transition) and never -1; counter-clockwise the same with
\* -1 and never +1.
C11_Rotation ==
    /\ knob.motion = "cw" => (knob.minus = 0 /\ knob.plus = (knob.moves + 2) \div 4)
    /\ knob.motion = "ccw" => (knob.plus = 0 /\ knob.minus = (knob.moves + 2) \div 4)

\* C11 witness: two full counter-clockwise turns, the last transition sampled twice
C11_Witness ==
    /\ knob.motion = "ccw" /\ knob.moves = 8 /\ knob.minus = 2 /\ knob.at = 3
    /\ enc.prev_next = 15

\* C12: in a bounce between two adjacent pairs, from any earlier encoder state, every
\* sample after the first transition of the bounce returns 0.
C12_Bounce ==
    [][(knob.motion = "bounce" /\ knob.moves >= 1 /\ knob'.motion = "bounce") => enc'.result = 0]_vars

\* C12 witness: a bounce between 01 and 00 whose first transition returned +1 has gone
\* back and forth four times since and is at 00 again
C12_Witness ==
    /\ knob.motion = "bounce" /\ knob.moves = 5 /\ knob.plus = 1 /\ knob.minus = 0
    /\ knob.at = 0 /\ knob.other = 1 /\ enc.prev_next = 4

\* the instance made by Lock::new that instance i was cloned from, through any chain
RECURSIVE Owner(_)
Owner(i) == IF mem.locks[i].from = 0 THEN i ELSE Owner(mem.locks[i].from)

\* C13: a clone refers to the value of the Lock it was cloned from, directly or
\* through a chain of clones: both have the same address and read the same value,
\* the value written last through the guard of any instance of the family is what
\* every instance of it reads, and there are as many values as calls of Lock::new.
C13_CloneAliases ==
    /\ \A i \in 1 .. Len(mem.locks) :
          /\ as_ptr(mem.locks[i]) = as_ptr(mem.locks[Owner(i)])
          /\ LockRead(mem, i) = LockRead(mem, Owner(i))
          /\ (lock_op.op = "write" /\ Owner(i) = Owner(lock_op.lock)) =>
                LockRead(mem, i) = lock_op.value
    /\ Len(mem.cells) = Cardinality({i \in 1 .. Len(mem.locks) : mem.locks[i].from = 0})
    /\ lock_op.op = "clone" => Len(mem.locks) >= 2 /\ mem.locks[Len(mem.locks)].inner = "Pointer"

\* C13 witness: a write through a clone of a clone, with the owner and both clones
\* reading the new value and a second Lock keeping its own
C13_Witness ==
    /\ Len(mem.locks) = 4 /\ Len(mem.cells) = 2
    /\ mem.locks[2].from = 1 /\ mem.locks[3].from = 2 /\ mem.locks[4].from = 0
    /\ lock_op = LockOp("write", 3, 2)
    /\ LockRead(mem, 1) = 2 /\ LockRead(mem, 2) = 2 /\ LockRead(mem, 4) = 0

\* the main loop is inside cortex_m::interrupt::free
InCritical == main.pc \in {"clk_get", "clk_rst", "clk_take", "ext_get", "ext_read", "free_end"}

\* C14: in every interleaving of the two handlers with the main loop, a write to
\* clk_flags or io_ext_flags goes through a guard, a guard is only held with
\* interrupts disabled, no handler runs while the main loop is between getting a
\* guard and the end of its critical section, and the only access with interrupts
\* enabled is the read() of the main loop before it decides to enter one.
C14_CriticalSections ==
    /\ access.kind = "write" => (access.via = "guard" /\ access.masked)
    /\ access.via = "guard" => access.masked
    /\ (access.who # "none" /\ ~access.masked) =>
          (access.who = "main" /\ access.via = "read" /\ access.kind = "read"
           /\ main.pc \in {"dirty_ext", "free", "inputs"})
    /\ access.who = "isr" => (access.held = "none" /\ ~InCritical /\ ~primask)
    /\ main.guard # "none" => (primask /\ InCritical)
    /\ InCritical => primask

\* C14 witness: the main loop has taken the clock flag and holds the guard of
\* io_ext_flags inside its critical section while a clock edge and an expander
\* interrupt wait for the handlers
C14_Witness ==
    /\ main.pc = "ext_read" /\ main.guard = "io_ext_flags" /\ primask
    /\ main.took_clk /\ pending.clk /\ pending.ext1 /\ io_ext_flags.f2

\* the pass that is about to hand over its operations took both flags of clk_flags
BothPending == main.pc = "drain" /\ main'.pc = "top" /\ main.took_rst /\ main.took_clk

\* C15 as claimed: a pass that finds reset and clock both flagged queues Reset before
\* Tick, and after its State::update the global playhead is 0 and next_is_reset false.
C15_ResetBeforeTickAlways ==
    [][BothPending =>
          /\ Len(opers) >= 2 /\ opers[1].op = "Reset" /\ opers[2].op = "Tick"
          /\ state'.playhead = 0 /\ ~state'.next_is_reset
      ]_vars

\* C15 as amended: if a clock edge was taken in an earlier pass, the pass queues Reset
\* before Tick and its State::update leaves the playhead at 0 and next_is_reset false;
\* on the first clock edge since start it queues Reset alone, and the update leaves
\* the playhead where it was and next_is_reset true.
C15_ResetBeforeTick ==
    [][BothPending =>
          /\ main.had_last =>
                /\ Len(opers) = 2 /\ opers[1].op = "Reset" /\ opers[2].op = "Tick"
                /\ state'.playhead = 0 /\ ~state'.next_is_reset
                /\ state'.tick_count = state.tick_count + 1
          /\ ~main.had_last =>
                /\ opers = <<Oper("Reset", 0, 0)>>
                /\ state'.playhead = state.playhead /\ state'.next_is_reset
                /\ state'.tick_count = state.tick_count
      ]_vars

\* C15 witness: the second pass took a reset and the second clock edge and its
\* update has applied Reset and Tick
C15_Witness ==
    /\ main.pc = "top" /\ clock = 2 /\ handled = 2 /\ main.clk_last = 2
    /\ state.tick_count = 1 /\ state.playhead = 0 /\ ~state.next_is_reset
    /\ state.last = 2

\* the call of State::update of a pass of the timed driver, run without an abort
Updated == pc = "update" /\ pc' = "poll" /\ state.panic = "none" /\ state'.panic = "none"

\* C16: a State::update of a Reset alone changes neither the global playhead nor a
\* track playhead, arms next_is_reset and resets the tempo predictor; a Tick disarms
\* the flag, the first Tick after one or more Resets sets the global playhead to 0,
\* each Tick after it with no Reset in between adds exactly 1, and k Ticks after the
\* resetting Tick the raw playhead is k.
C16_ResetThenTick ==
    [][Updated =>
          /\ opers = <<Oper("Reset", 0, 0)>> =>
                /\ state'.playhead = state.playhead
                /\ state'.track_playhead = state.track_playhead
                /\ state'.next_is_reset
                /\ state'.tempo = TempoReset(state.tempo)
                /\ state'.tick_count = state.tick_count
          /\ (Len(opers) > 0 /\ opers[Len(opers)].op = "Tick") =>
                /\ ~state'.next_is_reset
                /\ (hist.armed \/ opers[1].op = "Reset") => state'.playhead = 0
                /\ hist'.since > 0 => state'.playhead = state.playhead + 1
          /\ hist'.armed => state'.next_is_reset
          /\ hist'.since >= 0 => state'.playhead = hist'.since
      ]_vars

\* C16 witness: a Tick, then Reset and Tick, then three more Ticks: the playhead,
\* which stood at 1, went to 0 and is at 3
C16_Witness ==
    /\ pc = "poll" /\ state.panic = "none" /\ hist.since = 3 /\ ~hist.armed
    /\ state.playhead = 3 /\ state.tick_count = 5 /\ ~state.next_is_reset

\* C17: State::update_time changes an input mode other than Run to Run exactly when
\* more than 5 seconds have passed since the latest operation of the user that
\* State::update acted on (a Seed turn in the Fate mode and a knob turn in the Lfo or
\* TrackSync mode included); State::update never changes a mode to Run, and a call
\* with only Tick and Reset changes neither the input mode nor last_action.
C17_IdleRevert ==
    [][/\ (pc = "poll" /\ pc' = "update" /\ state.input_mode # Run /\ state'.panic = "none") =>
            (state'.input_mode = Run <=> clock' - hist.acted > 5 * CountsPerSec)
       /\ Updated =>
            /\ state.input_mode # Run => state'.input_mode # Run
            /\ (\A k \in 1 .. Len(opers) : opers[k].op \in {"Tick", "Reset"}) =>
                  (state'.input_mode = state.input_mode /\ state'.last_action = state.last_action)
      ]_vars

\* C18: with Seed, Length, Offset, Steps and click operations of delta -1 or +1 and
\* no Fate randomization, the offset of every track is at least 0 and less than the
\* length of the same track.
C18_OffsetInRange ==
    \A i \in Tracks :
        /\ state.params.tracks[i].offset >= 0
        /\ state.params.tracks[i].offset < state.params.tracks[i].length

\* the place of an operation in the order of C21
RankClaimed(o) ==
    CASE o.op = "Reset" -> 0
      [] o.op = "Tick" -> 1
      [] o.op = "Seed" -> 2
      [] o.op = "SeedClick" -> 3
      [] o.op = "Length" -> 4
      [] o.op = "LengthClick" -> 5
      [] o.op = "Offset" -> 6 + 4 * o.tr
      [] o.op = "OffsetClick" -> 7 + 4 * o.tr
      [] o.op = "Steps" -> 8 + 4 * o.tr
      [] o.op = "StepsClick" -> 9 + 4 * o.tr

\* C21: what one Inputs::tick appends is in the order Reset, Tick, Seed, SeedClick,
\* Length, LengthClick and then, track by track, Offset, OffsetClick, Steps,
\* StepsClick: the four operations of a track come before every operation of the
\* next track.
C21_DecoderOrder ==
    \A j \in 1 .. Len(opers) : \A k \in 1 .. Len(opers) :
        j < k => RankClaimed(opers[j]) < RankClaimed(opers[k])

\* what the handler pushes for one expander that fired with the readings x and y
Captured(q, fired, x, y) ==
    IF ~fired THEN <<>>
    ELSE (IF q = <<>> \/ q[Len(q)] = x THEN <<x>> ELSE <<>>) \o (IF y # x THEN <<y>> ELSE <<>>)

\* the queue q after the snapshots new, the oldest entries dropped beyond 64
DropOldest(q, new) ==
    LET all == q \o new
    IN  IF Len(all) <= IOEXT_READS_CAP THEN all
        ELSE SubSeq(all, Len(all) - IOEXT_READS_CAP + 1, Len(all))

\* C22: a run of the expander interrupt handler never ends in the fatal state; each
\* queue then holds its old entries and the new snapshots, without the oldest
\* entries once that makes more than 64.
C22_DropOldest ==
    [][(Len(mem.locks) = 1 /\ lock_op'.op = "capture" /\ state.panic = "none") =>
          LET in == lock_op'.value
              old == LockRead(mem, 1)
          IN  /\ state'.panic = "none"
              /\ mem'.cells[1][1] = DropOldest(old[1], Captured(old[1], in[1], in[2], in[3]))
              /\ mem'.cells[1][2] = DropOldest(old[2], Captured(old[2], in[4], in[5], in[6]))
      ]_vars

\* C23: a DAC write, an expander read or a display write that fails in the critical
\* section of the main loop puts the program into the failure state, and the
\* failure state is absorbing: no pass, no State::update and no gate output follow.
C23_BusErrorFatal ==
    [][/\ (pc = "section" /\ state.panic = "none"
           /\ (hist'.bus.dac \/ hist'.bus.ext \/ hist'.bus.seg)) => state'.panic # "none"
       /\ state.panic # "none" =>
             (state' = state /\ outputs' = outputs /\ clock' = clock /\ pc' = pc)
      ]_vars

\* the two modes a button toggles between
ClickPair(o) ==
    CASE o.op = "SeedClick" -> <<Fate, SeedMode>>
      [] o.op = "OffsetClick" -> <<Mode("Lfo", o.tr), Mode("Offset", o.tr)>>
      [] o.op = "StepsClick" -> <<Mode("TrackSync", o.tr), Mode("Steps", o.tr)>>

\* the input mode after State::update of the one click o in the state st
Clicked(st, o) == update(st, clock, <<o>>, NoRnd)

\* C24: a State::update of one click sets the input mode to the second mode of the
\* pair of its button (Seed, Offset(t), Steps(t)) when the mode is the first of the
\* pair (Fate, Lfo(t), TrackSync(t)) and to the first otherwise; it changes no
\* parameter, playhead or sync policy; and from either mode of the pair, two
\* clicks of the button in a row give that mode again.
C24_ClickToggles ==
    [][(pc = "update" /\ pc' = "poll" /\ Len(opers) = 1 /\ state.panic = "none"
        /\ opers[1].op \in {"SeedClick", "OffsetClick", "StepsClick"}) =>
          LET pair == ClickPair(opers[1])
          IN  /\ state'.panic = "none"
              /\ state'.input_mode = IF state.input_mode = pair[1] THEN pair[2] ELSE pair[1]
              /\ state'.params = state.params /\ state'.generated = state.generated
              /\ state'.playhead = state.playhead /\ state'.tick_count = state.tick_count
              /\ state'.track_playhead = state.track_playhead
              /\ state'.track_sync = state.track_sync
              /\ Clicked(state', opers[1]).input_mode = state.input_mode
                    <=> state.input_mode \in {pair[1], pair[2]}
      ]_vars

\* C24 witness: three clicks of the offset button of track 2: Lfo, Offset, Lfo again
C24_Witness ==
    /\ pc = "poll" /\ clock = 3 /\ handled = 1 /\ state.panic = "none"
    /\ state.input_mode = Mode("Lfo", 1) /\ state.last_action = 3
    /\ state.params.tracks[1].offset = 0

\* C25: a Seed turn in Fate mode does not abort, whatever the 32-bit draws, and
\* leaves every track with a length in [2, 64], steps in [0, length] and an offset
\* in [0, length), the seed in [SEED_BASE, SEED_BASE + 9999], and the next Tick armed
\* as a reset.
C25_FateInRange ==
    [][(pc = "update" /\ pc' = "poll" /\ state.panic = "none" /\ state.input_mode = Fate
        /\ Len(opers) = 1 /\ opers[1].op = "Seed") =>
          /\ state'.panic = "none"
          /\ \A i \in Tracks :
                LET t == state'.params.tracks[i]
                IN  /\ t.length >= 2 /\ t.length <= 64
                    /\ t.steps >= 0 /\ t.steps <= t.length
                    /\ t.offset >= 0 /\ t.offset < t.length
          /\ state'.params.seed - SEED_BASE >= 0 /\ state'.params.seed - SEED_BASE <= 9999
          /\ state'.next_is_reset
      ]_vars

\* C26: whenever State::new or State::update has returned, the generated patterns are
\* those of the current parameters, the LFO of every track holds the length of its
\* track, and the step size of every track is (2^32 - 1) divided by its length,
\* rounded down.
C26_Regenerated ==
    (pc = "poll" /\ state.panic = "none") =>
        /\ state.generated = GeneratedNew(state.params)
        /\ \A i \in Tracks :
              /\ state.lfo[i].length = state.params.tracks[i].length
              /\ state.track_per_tick[i] = U32MaxDiv(state.params.tracks[i].length)

\* C26 witness: one batch has randomized the parameters in Fate mode and then turned
\* the steps of track 1, which lengthened the track
C26_Witness ==
    /\ pc = "poll" /\ state.panic = "none" /\ handled = 2
    /\ state.next_is_reset /\ state.input_mode = Mode("Steps", 0)
    /\ state.params.tracks[0].steps = 0 /\ state.params.tracks[0].length = 3
    /\ state.params.tracks[1].length = 2

\* a <= b for 32-bit values
LeU32(a, b) == a.h < b.h \/ (a.h = b.h /\ a.b <= b.b)

\* ph * pt + pd is at most 2^32 - 1: the sum in limbs of 16 bits has no third limb
FitsU32(ph, pt, pd) ==
    LET lo == ph * (pt % 65536) + (pd % 65536)
        hi == ph * (pt \div 65536) + (pd \div 65536) + (lo \div 65536)
    IN  hi < 65536

\* C27: at every State::update_time, the phase offset handed to the LFO of a track is
\* track_playhead * per_tick + min(elapsed, predicted) * per_tick / predicted (the
\* fraction 0 when predicted is 0) without loss, that is the sum fits in 32 bits and
\* (track_playhead + 1) * per_tick is at most 2^32 - 1; and when no Tick came since
\* the update_time before it, the offset has not decreased, and has not changed at
\* all once the time since the latest Tick had reached the predicted interval.
C27_PhaseOffset ==
    [][(pc = "poll" /\ pc' = "update") =>
          \A i \in Tracks :
            LET ph == state.track_playhead[i]
                pt == state.track_per_tick[i]
                was == state.lfo[i].offset
                now == state'.lfo[i].offset
            IN  /\ FitsU32(ph, pt, Pred(Max(clock' - state.last, 0), state.predicted, pt))
                /\ FitsU32(ph + 1, pt, 0)
                /\ (state.last # clock /\ hist.passes > 0) => LeU32(was, now)
                /\ (state.last # clock /\ hist.passes > 0
                      /\ clock - state.last >= state.predicted) => now = was
      ]_vars

LfoSetters == {"set_offset", "set_mode", "set_seed_length",
               "set_gate_high(true)", "set_gate_high(false)"}

\* C28: a call of the Lfo that leaves it in a mode other than Random has made a value
\* pending exactly when the sample of the mode differs from the value most recently
\* made pending (0, the start value of the Lfo, when none was yet), also after
\* switches into and out of Random mode; and Lfo::tick has returned no more values
\* than were made pending, leaving none pending behind.
C28_PendingOnChange ==
    /\ (state.panic = "none" /\ hist.lfo.call \in LfoSetters /\ state.lfo[0].mode # 0) =>
          (hist.lfo.did <=> hist.lfo.sample # (IF hist.lfo.prior = -1 THEN 0 ELSE hist.lfo.prior))
    /\ hist.lfo.out_n <= hist.lfo.made_n
    /\ hist.lfo.call = "tick" => state.lfo[0].next = -1

C30_TickCommandsGates ==
    [][(pc = "update" /\ pc' = "poll" /\ state'.panic = "none"
        /\ \E k \in 1 .. Len(opers) : opers[k].op = "Tick") =>
          \A i \in Tracks :
             ~outputs'.mute[i] =>
                outputs'.gs[i] =
                   GateSetFrom(PatternBit(state'.generated, i, state'.track_playhead[i]))
      ]_vars

\* C31: in a pass whose State::update applies no Tick, Outputs::tick hands every gate
\* Retain, whatever other operations the pass applied.
C31_RetainWithoutTick ==
    [][(pc = "update" /\ pc' = "poll" /\ state'.panic = "none"
        /\ \A k \in 1 .. Len(opers) : opers[k].op # "Tick") =>
          \A i \in Tracks : outputs'.gs[i] = "Retain"
      ]_vars

\* C32: a flag that a handler has set (the reset flag, the clock timestamp, an
\* expander flag) is cleared in the end, whenever the handler ran; and the main loop
\* clears a flag only in its critical section and acts on it in the same step: it
\* queues Reset for the reset flag, takes the time of the pass as the time of the
\* latest clock edge (and queues a Tick if there was an edge before) for the clock
\* timestamp, and reads the expanders for an expander flag.
C32_FlagsServed ==
    /\ clk_flags.rst ~> ~clk_flags.rst
    /\ (clk_flags.clk # -1) ~> (clk_flags.clk = -1)
    /\ (io_ext_flags.f1 \/ io_ext_flags.f2) ~> (~io_ext_flags.f1 /\ ~io_ext_flags.f2)
    /\ [][/\ (clk_flags.rst /\ ~clk_flags'.rst) =>
               (primask /\ opers' = Append(opers, Oper("Reset", 0, 0)))
          /\ (clk_flags.clk # -1 /\ clk_flags'.clk = -1) =>
               /\ primask /\ main'.clk_last = main.now
               /\ main.clk_last # -1 =>
                     opers' = Append(opers, Oper("Tick", 0, clk_flags.clk - main.clk_last))
          /\ ((io_ext_flags.f1 /\ ~io_ext_flags'.f1) \/ (io_ext_flags.f2 /\ ~io_ext_flags'.f2)) =>
               (primask /\ main.pc = "ext_read" /\ access'.kind = "write")
         ]_vars

\* C32 witness: the handler set the reset flag after the dirty read of the pass had
\* found nothing, and the critical section of the same pass has drained it
C32_Witness ==
    /\ main.pc = "clk_take" /\ main.took_rst /\ ~main.clk_change
    /\ ~clk_flags.rst /\ Len(opers) = 1 /\ opers[1].op = "Reset"

\* C33: the interval of a Tick is the captured time of its clock edge less the
\* captured time of the clock edge before it.  The main loop computes it against
\* clk_last, so: a Tick it queues carries the captured time less clk_last, and when it
\* takes a captured time, clk_last becomes that captured time, however late the pass
\* is that takes it.
C33_IntervalBetweenEdges ==
    [][(main.pc = "clk_take" /\ main'.pc = "ext_get" /\ clk_flags.clk # -1) =>
          /\ main.clk_last # -1 =>
                opers' = Append(opers, Oper("Tick", 0, clk_flags.clk - main.clk_last))
          /\ main'.clk_last = clk_flags.clk
      ]_vars

\* the operations todo applied one at a time, in successive calls of State::update
\* with the same now
RECURSIVE OneByOne(_, _, _, _)
OneByOne(st, now, todo, rnd) ==
    IF todo = <<>> \/ st.panic # "none" THEN st
    ELSE OneByOne(update(st, now, <<Head(todo)>>, rnd), now, Tail(todo), rnd)

\* C34: State::update of a list of operations leaves the state that successive calls
\* of State::update with one operation each, in the same order and with the same now,
\* leave.
C34_BatchAsSequence ==
    (pc = "update" /\ state.panic = "none") =>
        update(state, clock, opers, NoRnd) = OneByOne(state, clock, opers, NoRnd)

\* C35: from a state whose mode is not Fate, State::update of any one operation with
\* a track in 0..3 and a delta of -1 or +1 returns, whichever variant of Oper it is.
C35_NoFatalOper ==
    (pc = "update" /\ state.panic = "none" /\ state.input_mode # Fate) =>
        \A o \in AllOpers : update(state, clock, <<o>>, NoRnd).panic = "none"

\* C36: whenever State::update has returned, the playhead of every track is below
\* the length of that track.
C36_PlayheadInOwnLoop ==
    (pc = "poll" /\ state.panic = "none" /\ handled > 0) =>
        \A i \in Tracks : state.track_playhead[i] < state.params.tracks[i].length

\* the level last written to the pin of the gate is the active one
PinActive(g) == ToString(g.pin) = ToString(FALSE)

GateConsistent(g) == (g.clear_at # -1 <=> g.high) /\ (PinActive(g) <=> g.high)

\* C37: after any commands at non-decreasing times, a Gate has a clear time pending
\* exactly when its high flag is set, and the level last written to its pin is the
\* active one (set_hilo(false), the output being inverted) exactly when the high
\* flag is set.
C37_GateConsistent == GateConsistent(gate) /\ \A i \in Tracks : GateConsistent(outputs.gates[i])

\* C37 witness: a gate that was set is retained before its clear time, after an
\* earlier duty cycle had run out
C37_Witness ==
    /\ gate.high /\ gate.pin = FALSE /\ gate.clear_at > clock
    /\ gate_in.set = "Retain" /\ ~gate.wrote /\ clock >= 4

\* C38: when the main loop drains a reset flag and the timestamp of a clock edge that
\* was captured before the reset, the Tick it queues for that edge moves the playhead
\* on by one and leaves the reset armed for the Tick after it.
C38_EarlierEdgeNotReset ==
    [][(main.pc = "clk_take" /\ main'.pc = "ext_get" /\ main.took_rst
        /\ TickDue(clk_flags.clk, main.clk_last) /\ hist.order = "clk_first") =>
          LET st == update(state, main.now, opers', NoRnd)
          IN  st.playhead = state.playhead + 1 /\ st.next_is_reset
      ]_vars

\* C39: whenever a walk of valid transitions from the rest pair 11 is back at 11, the
\* values Encoder::tick returned during it add up to the full clockwise cycles minus
\* the full counter-clockwise cycles, which is a quarter of the net quarter turns.
C39_SumIsNetCycles ==
    (knob.motion = "walk" /\ knob.at = 3) => knob.plus - knob.minus = knob.net \div 4

\* the snapshots a run of the handler appends to the queue q when only changes count
ChangesOnly(q, fired, x, y) ==
    IF ~fired THEN <<>>
    ELSE (IF q = <<>> \/ q[Len(q)] # x THEN <<x>> ELSE <<>>) \o (IF y # x THEN <<y>> ELSE <<>>)

\* no entry of the queue q equals the one before it
NoRepeat(q) == \A i \in 1 .. Len(q) - 1 : q[i] # q[i + 1]

\* C40: a run of the expander interrupt handler appends the captured snapshot to a
\* queue when it differs from the last entry and not when it equals it, and no queue
\* then holds two equal consecutive entries.
C40_ChangesRecorded ==
    [][(Len(mem.locks) = 1 /\ lock_op'.op = "capture" /\ state'.panic = "none") =>
          LET in == lock_op'.value
              old == LockRead(mem, 1)
          IN  /\ mem'.cells[1][1] = old[1] \o ChangesOnly(old[1], in[1], in[2], in[3])
              /\ mem'.cells[1][2] = old[2] \o ChangesOnly(old[2], in[4], in[5], in[6])
              /\ NoRepeat(mem'.cells[1][1]) /\ NoRepeat(mem'.cells[1][2])
      ]_vars

\* every clock edge so far was taken by the main loop, none came before the one
\* before it was taken, and the pass that took the last one is over
EdgesDrained ==
    /\ main.pc = "top" /\ ~hist.overrun /\ ~pending.clk /\ clk_flags.clk = -1
    /\ state.panic = "none"

\* C19 as claimed: after n clock edges, each taken before the next, tick_count is n.
C19_TickPerEdgeAlways == EdgesDrained => state.tick_count = hist.edges

\* C19 as amended: the first clock edge since start only sets clk_last and queues no
\* Tick; every later edge results in exactly one Tick, so after n >= 1 edges, each
\* taken before the next, tick_count is n - 1.
C19_TickPerEdge ==
    /\ EdgesDrained => state.tick_count = Max(hist.edges - 1, 0)
    /\ EdgesDrained => (main.clk_last = -1 <=> hist.edges = 0)

\* C19 witness: three clock edges, one per pass, have given two Ticks
C19_Witness ==
    /\ EdgesDrained /\ hist.edges = 3 /\ state.tick_count = 2 /\ clock = 3
    /\ main.clk_last = 3 /\ state.playhead = 2

\* C20: the queue never holds more than 64 operations (no pass queues more than 22)
\* and no push aborts; while a pass runs the queue holds what this pass has pushed
\* and nothing older; at the end of a pass the queue is empty, and the update of the
\* pass was handed all of them.
C20_QueueDrained ==
    /\ Len(opers) <= OPER_QUEUE_CAP /\ Len(opers) <= 22
    /\ state.panic # "capacity"
    /\ (main.pc # "top" /\ state.panic = "none") => Len(opers) = main.pushed
    /\ (main.pc = "top" /\ state.panic = "none") =>
          (opers = <<>> /\ (main.pushed > 0 => handled = main.pushed))

\* C20 witness: a pass queued Reset, Tick and nineteen operations of the controls, and
\* its update was handed all twenty-one
C20_Witness ==
    /\ main.pc = "top" /\ state.panic = "none" /\ opers = <<>>
    /\ main.pushed = 21 /\ handled = 21 /\ state.tick_count = 1


====
